---- MODULE Spec2Model ----
(***************************************************************************)
(* Zero-curve bootstrap of the Banxico connectors.                         *)
(*                                                                         *)
(*   src/src/instruments/bootstrap.py        the per-date Driver           *)
(*                                           (bootstrap_from_curve_df),    *)
(*                                           its curve function and solver *)
(*                                           and a wrapper over dates      *)
(*   src/src/instruments/rates_to_curves.py  the wrapper over dates that   *)
(*                                           the registry wires            *)
(*                                                                         *)
(* Numbers.  The program computes in binary floating point; the model      *)
(* computes on a decimal grid of integers:                                 *)
(*   - a discount factor, a price, a cash amount and a decimal rate are    *)
(*     counted in thousandths (One = 1.0);                                 *)
(*   - a coupon and a spread (percentage points) are counted in            *)
(*     thousandths of a point;                                             *)
(*   - the overnight rate in percent with two decimals, and a zero rate,   *)
(*     are counted in hundredths of a percent;                             *)
(*   - a tenor is a whole number of days.                                  *)
(* A division rounds down to the grid.  The two floors the program uses    *)
(* for a discount factor, 1e-14 and 1e-12, lie below the grid's step: both *)
(* are the grid value 2, and the grid value 1 is a positive discount       *)
(* factor smaller than either (a price below 1e-13 on a zero_coupon row).  *)
(* An optional cell of the input table (None / NaN) is the empty sequence, *)
(* a present value v is <<v>>.                                             *)
(***************************************************************************)
EXTENDS Integers, Sequences, FiniteSets, TLC

(***************************************************************************)
(* Bounds of the model.                                                    *)
(***************************************************************************)
\* Rows of the table handed directly to the Driver.
MaxRows == 3
\* Valuation dates of a table handed to a wrapper.
MaxDates == 2
\* Rows of one valuation date of a table handed to a wrapper.
MaxGroupRows == 6
\* Driver invocations on the same table by a direct caller.
MaxCalls == 2
\* Largest time, in days, at which the curve function is evaluated on its own.
MaxProbe == 400
\* Threads of the process that call register_all.
MaxThreads == 2
\* Calls of register_all by one thread.
MaxRegisterCalls == 2
\* Length of the id list passed to fetch_banxico_series_batched.
MaxIds == 4
\* Distinct series ids.
MaxSeries == 3
\* Largest max_chunk argument.
MaxChunk == 4

(***************************************************************************)
(* Program constants.                                                      *)
(***************************************************************************)
\* DF 1.0 of the artificial pillar, in grid units.
One == 1000
\* day_count_convention
DayCount == 360
\* CETES face value
CetesFace == 10
\* Bond and FRN face value
Face == 100
\* M Bono coupon period, days
BondStep == 182
\* BONDES coupon period, days
FrnStep == 28
\* lower bracket bound of the solver (1e-14), on the grid
BracketLo == 2
\* floor of a solved discount factor in the Driver (1e-12), on the grid
DfFloor == 2
\* minimum rows of a date group in rates_to_curves
MinRows == 5
\* |spread| above which the spread is read as basis points
SpreadBpsAbove == 5

None == <<>>
Some(v) == <<v>>
IsNa(x) == x = <<>>
Val(x) == x[1]

Max(a, b) == IF a >= b THEN a ELSE b
Min(a, b) == IF a <= b THEN a ELSE b
SetMax(S) == CHOOSE x \in S : \A y \in S : y <= x
Range(s) == {s[i] : i \in 1..Len(s)}

\* round(x, 2) of a quotient n / d (d > 0), in hundredths: to nearest, half up
RoundDiv(n, d) == (2 * n + d) \div (2 * d)

(***************************************************************************)
(* The input table.  A row of one valuation date: its index label pos      *)
(* (the row's place in the caller's table) and the columns the Driver      *)
(* reads.                                                                  *)
(***************************************************************************)
Row(ty, T, cp, dp, c) ==
    [type |-> ty, tenor_days |-> T, clean_price |-> cp, dirty_price |-> dp, coupon |-> c]

\* str(r["type"]).strip().lower()
Normalize(ty) ==
    CASE ty = "ZERO_COUPON " -> "zero_coupon"
      [] OTHER -> ty

FrnTypes == {"floating_bondes_d", "floating_bondes_f", "floating_bondes_g"}
KnownTypes == {"overnight_rate", "zero_coupon", "fixed_bond"} \cup FrnTypes

\* Rows a direct caller of the Driver may put in its table.
RowChoices ==
    { Row("overnight_rate", 1, None, Some(105), None),
      Row("overnight_rate", 1, None, Some(10500), None),
      Row("overnight_rate", 1, Some(105), None, None),
      Row("overnight_rate", 0, None, Some(105), None),
      Row("zero_coupon", 0, None, Some(9000), None),
      Row("zero_coupon", 1, Some(9990), None, None),
      Row("zero_coupon", 28, Some(9000), Some(9900), None),
      Row("ZERO_COUPON ", 28, Some(9950), None, None),
      Row("zero_coupon", 56, None, Some(0), None),
      Row("zero_coupon", 56, None, Some(10), None),
      Row("zero_coupon", 91, Some(97500), None, None),
      Row("zero_coupon", 91, None, None, None),
      Row("fixed_bond", 182, None, Some(101000), Some(8000)),
      Row("fixed_bond", 364, Some(99000), None, Some(8000)),
      Row("floating_bondes_g", 1, None, Some(100000), Some(0)),
      Row("floating_bondes_f", 28, None, Some(100000), Some(0)),
      Row("floating_bondes_f", 28, None, None, Some(0)),
      Row("floating_bondes_d", 56, Some(99900), None, Some(20000)),
      Row("unknown_family", 10, None, Some(100000), None) }

\* The caller's table: the rows in input order, each with its index label.
Indexed(rows) == [i \in 1..Len(rows) |-> [pos |-> i] @@ rows[i]]

SeqsUpTo(S, n) == UNION {[1..k -> S] : k \in 0..n}

DirectTables == {Indexed(rows) : rows \in SeqsUpTo(RowChoices, MaxRows)}

(***************************************************************************)
(* The date groups a wrapper's table is cut from: the group of a date is   *)
(* the first n rows of one of them.  LateAnchor carries its overnight row  *)
(* sixth, so a shorter group has no anchor; BadThird carries a row of an   *)
(* unknown family third; FrnFirst carries a floating-rate note ahead of    *)
(* its overnight row at the same tenor.  The rows are not in tenor order.  *)
(***************************************************************************)
LateAnchor ==
    << Row("zero_coupon", 91, Some(9700), None, None),
       Row("zero_coupon", 28, None, Some(9900), None),
       Row("fixed_bond", 182, None, Some(101000), Some(8000)),
       Row("zero_coupon", 56, None, Some(9800), None),
       Row("fixed_bond", 364, Some(99000), None, Some(8000)),
       Row("overnight_rate", 1, None, Some(105), None),
       Row("floating_bondes_f", 84, None, Some(100000), Some(0)),
       Row("zero_coupon", 120, None, Some(9600), None) >>

BadThird ==
    << Row("zero_coupon", 28, None, Some(9900), None),
       Row("overnight_rate", 1, None, Some(105), None),
       Row("unknown_family", 10, None, Some(100000), None),
       Row("floating_bondes_d", 56, Some(99900), None, Some(20000)),
       Row("fixed_bond", 182, None, Some(101000), Some(8000)),
       Row("zero_coupon", 91, Some(9700), None, None),
       Row("fixed_bond", 364, Some(99000), None, Some(8000)),
       Row("zero_coupon", 120, None, Some(9600), None) >>

FrnFirst ==
    << Row("floating_bondes_g", 1, None, Some(100000), Some(0)),
       Row("overnight_rate", 1, None, Some(105), None) >>

Groups ==
    {Indexed(SubSeq(t, 1, Min(n, Len(t)))) : t \in {LateAnchor, BadThird, FrnFirst}, n \in 0..MaxGroupRows}

\* nodes.groupby("time_index"): the groups by ascending date; a date of the
\* table has at least one row.
GroupedTables == {g \in SeqsUpTo(Groups, MaxDates) : \A d \in 1..Len(g) : Len(g[d]) > 0}

(***************************************************************************)
(* The Discount-Factor Store and the log-linear curve function.            *)
(* pillars is a function from the tenors present to their discount factor. *)
(***************************************************************************)
\* pillars[T] = v
\* a store of the one pillar set, the others dropped
OnlyPillar(pillars, T, v) == T :> v

\* a store that keeps the value of a tenor it already holds
KeepPillar(pillars, T, v) ==
    [t \in DOMAIN pillars \cup {T} |-> IF t \in DOMAIN pillars THEN pillars[t] ELSE v]

SetPillar(pillars, T, v) ==
    [t \in DOMAIN pillars \cup {T} |-> IF t = T THEN v ELSE pillars[t]]

\* np.any(ys <= 0): _build_loglinear_df_func raises
NonPositivePillar(pillars) == \E t \in DOMAIN pillars : pillars[t] <= 0

\* j = np.searchsorted(xs, t) - 1: xs[j] is the last pillar tenor < t
PillarBelow(pillars, t) == SetMax({x \in DOMAIN pillars : x < t})
\* xs[j + 1]: the first pillar tenor >= t
PillarAbove(pillars, t) == CHOOSE x \in DOMAIN pillars : x >= t /\ \A y \in DOMAIN pillars : y >= t => x <= y
\* xs[1]
SecondPillar(pillars, first) == CHOOSE x \in DOMAIN pillars : x > first /\ \A y \in DOMAIN pillars : y > first => x <= y

\* exp((1 - w) * ln(y0) + w * ln(y1)) with w = (t - x0) / (x1 - x0), for
\* x0 <= t <= x1: the value at t of the log-linear segment, on the grid.  The
\* grid value is the chord's: equal to the segment at both ends, between y0
\* and y1 and monotone in y1 like the segment.
LogLinear(x0, y0, x1, y1, t) == y0 + ((y1 - y0) * (t - x0)) \div (x1 - x0)

\* (y / One) ^ n on the grid, n a natural number
RECURSIVE IntPow(_, _)
IntPow(y, n) ==
    IF n = 0 THEN One
    ELSE IF n % 2 = 1 THEN (IntPow(y, n - 1) * y) \div One
    ELSE LET h == IntPow(y, n \div 2) IN (h * h) \div One

\* (y / One) ^ (num / den) on the grid: the whole powers by multiplication,
\* between two whole powers by the chord
GeoPow(y, num, den) ==
    LET q == num \div den
        r == num % den
        lo == IntPow(y, q)
        hi == IntPow(y, q + 1)
    IN  lo + ((hi - lo) * r) \div den

\* the last slope followed as it is, upwards too
UnclampedRight(x0, y0, x1, y1, t) == y1 + ((y1 - y0) * (t - x1)) \div (x1 - x0)

\* exp(logys[-1] + m_last * (t - xs[-1])) with m_last = min(slope, -1e-12),
\* for t >= xs[-1]: a slope that is not negative is replaced by -1e-12, whose
\* decay is below the grid
ExtrapolateRight(x0, y0, x1, y1, t) ==
    IF t = x1 \/ y1 >= y0 THEN y1
    ELSE (y1 * GeoPow((y1 * One) \div y0, t - x1, x1 - x0)) \div One

\* exp(logys[0] + m * (t - xs[0])) for t <= xs[0], m the first slope
ExtrapolateLeft(x0, y0, x1, y1, t) ==
    IF t = x0 \/ y1 = y0 THEN y0
    ELSE IF y1 < y0 THEN (y0 * One) \div GeoPow((y1 * One) \div y0, x0 - t, x1 - x0)
    ELSE (y0 * GeoPow((y0 * One) \div y1, x0 - t, x1 - x0)) \div One

\* df(t) of _build_loglinear_df_func(pillars), for pillars all positive
df_func(pillars, t) ==
    LET xs == DOMAIN pillars
        first == CHOOSE x \in xs : \A y \in xs : x <= y
        last == SetMax(xs)
    IN  IF t <= first
        THEN IF Cardinality(xs) = 1 THEN pillars[first]
             ELSE LET x1 == SecondPillar(pillars, first)
                  IN  ExtrapolateLeft(first, pillars[first], x1, pillars[x1], t)
        ELSE IF t >= last
        THEN IF Cardinality(xs) = 1 THEN pillars[first]
             ELSE LET x0 == SetMax(xs \ {last})
                  IN  ExtrapolateRight(x0, pillars[x0], last, pillars[last], t)
        ELSE LET x0 == PillarBelow(pillars, t)
                 x1 == PillarAbove(pillars, t)
             IN  LogLinear(x0, pillars[x0], x1, pillars[x1], t)

(***************************************************************************)
(* The Implied-DF Solver.  A schedule is a sequence of cash flows          *)
(* [t |-> days, a |-> amount], in increasing time.                         *)
(***************************************************************************)
\* a * df, an amount discounted
Discounted(a, df) == (a * df) \div One

RECURSIVE SumSeq(_)
SumSeq(s) == IF s = <<>> THEN 0 ELSE Head(s) + SumSeq(Tail(s))

\* pv_given_dfT(dfT)
pv_given_dfT(dfT, pre_known_sum, df_S, S, T, future) ==
    IF dfT <= 0 THEN pre_known_sum
    ELSE pre_known_sum
         + SumSeq([i \in 1..Len(future) |->
                     Discounted(future[i].a,
                                IF future[i].t < T
                                THEN LogLinear(S, df_S, T, dfT, future[i].t)
                                ELSE dfT)])

\* brentq(f, lo, hi) for f(lo), f(hi) not of the same strict sign: a grid
\* point of [lo, hi] at which f is zero or next to which f changes sign,
\* found by halving the bracket
RECURSIVE brentq(_, _, _, _, _, _, _, _)
brentq(lo, hi, target, pre_known_sum, df_S, S, T, future) ==
    LET f(x) == pv_given_dfT(x, pre_known_sum, df_S, S, T, future) - target
        mid == (lo + hi) \div 2
    IN  IF f(lo) = 0 THEN lo
        ELSE IF f(hi) = 0 \/ hi - lo <= 1 THEN hi
        ELSE IF f(mid) = 0 THEN mid
        ELSE IF (f(lo) < 0) = (f(mid) < 0)
             THEN brentq(mid, hi, target, pre_known_sum, df_S, S, T, future)
             ELSE brentq(lo, mid, target, pre_known_sum, df_S, S, T, future)

\* f(a) * f(b) > 0: no sign change over the bracket, for which brentq
\* raises ValueError
BracketFails(f_lo, f_hi) == (f_lo > 0 /\ f_hi > 0) \/ (f_lo < 0 /\ f_hi < 0)

\* no bracket sent to the fallback
NeverFallsBack(f_lo, f_hi) == FALSE

\* line 88: if f_lo * f_hi > 0, the fallback is taken instead of brentq
TakesFallback(f_lo, f_hi) == BracketFails(f_lo, f_hi)

\* df_S * exp(m_ff * (t - S)) with m_ff = min(-1e-12, ln(df_S) / max(S, 1))
ForwardFlat(df_S, S, t) ==
    IF df_S >= One THEN df_S
    ELSE (df_S * GeoPow(df_S, t - S, Max(S, 1))) \div One

\* the forward-flat fallback of the solver
Fallback(price, pre_known_sum, df_S, S, future) ==
    LET sum_unk_ff == SumSeq([i \in 1..Len(future) |->
                                Discounted(future[i].a, ForwardFlat(df_S, S, future[i].t))])
        df_T == ((price - pre_known_sum - sum_unk_ff) * One) \div future[Len(future)].a
    IN  Max(BracketLo, Min(df_T, df_S))

\* _solve_df_T_loglinear_generic
Solve(price, pre_known_sum, df_S, S, T, future) ==
    IF T <= S THEN df_S
    ELSE LET f_lo == pv_given_dfT(BracketLo, pre_known_sum, df_S, S, T, future) - price
             f_hi == pv_given_dfT(df_S, pre_known_sum, df_S, S, T, future) - price
         IN  IF TakesFallback(f_lo, f_hi)
             THEN Fallback(price, pre_known_sum, df_S, S, future)
             ELSE brentq(BracketLo, df_S, price, pre_known_sum, df_S, S, T, future)

(***************************************************************************)
(* The instrument cash-flow builders.                                      *)
(***************************************************************************)
\* 1.0 / DF with DF = 0 in the zero-rate array: numpy's inf
Inf == 2147483647

\* only the dirty price looked at
HasDirtyPrice(r) == ~IsNa(r.dirty_price)

\* dirty_price or clean_price is present
HasPrice(r) == ~IsNa(r.dirty_price) \/ ~IsNa(r.clean_price)

\* the clean price preferred to the dirty one
PickCleanFirst(r) == IF ~IsNa(r.clean_price) THEN Val(r.clean_price) ELSE Val(r.dirty_price)

\* _pick_price(row), for a row that has a price
_pick_price(r) == IF ~IsNa(r.dirty_price) THEN Val(r.dirty_price) ELSE Val(r.clean_price)

\* the overnight row's rate as a decimal: a value > 1.0 is a percentage
OvernightRate(dp) == IF dp > One THEN dp \div 100 ELSE dp

\* df_1d = 1.0 / (1.0 + rate * (1.0 / day_count_convention))
OvernightDF(rate) == (One * DayCount * One) \div (DayCount * One + rate)

\* round(rate * 100.0, 2), in hundredths of a percent
OvernightPct(rate) == RoundDiv(rate * 100 * 100, One)

\* round(((1.0 / df1) - 1.0) * day_count_convention / 1.0 * 100.0, 2)
PctFromDF1(df1) ==
    LET q == (One - df1) * DayCount * 100
    IN  (q \div df1) * 100 + RoundDiv((q % df1) * 100, df1)

\* _normalize_spread_pct(s_raw), in thousandths of a percentage point
_normalize_spread_pct(c) ==
    IF IsNa(c) THEN 0
    ELSE LET s == Val(c)
         IN  IF s > SpreadBpsAbove * One \/ s < -(SpreadBpsAbove * One) THEN s \div 100 ELSE s

\* 100 * ((1 + r / 36000) ^ n - 1) as an amount, r in thousandths of a
\* percent: the binomial series to its second-order term (the third is
\* below the grid at market rates)
Growth(r, n) ==
    (n * r) \div DayCount + (((n * (n - 1) * r) \div (20 * DayCount)) * r) \div (10000 * DayCount)

\* _frn_28day_coupon_params(T_days, r_pct, s_pct): k, d, rem, C1, C
_frn_28day_coupon_params(T, r_pct, s_pct) ==
    LET k == IF T > 0 THEN (T + FrnStep - 1) \div FrnStep ELSE 0
        rem == T - FrnStep * (k - 1)
        d == IF rem > 0 THEN FrnStep - rem ELSE 0
        r_eff == r_pct * 10 + s_pct
        \* 100 * TCdev / 36000
        dev == IF d <= 0 THEN 0 ELSE Growth(r_pct * 10, d) \div d
        fwd == Growth(r_eff, FrnStep - d)
    IN  IF k = 0 THEN [k |-> 0, d |-> 0, rem |-> 0, C1 |-> 0, C |-> 0]
        ELSE [k |-> k, d |-> d, rem |-> rem,
              C1 |-> dev + fwd + (dev * fwd) \div (Face * One),
              C |-> Growth(r_eff, FrnStep)]

\* accrued = 100.0 * d * TCdev / 36000.0
FrnAccrued(d, r_pct) == IF d <= 0 THEN 0 ELSE Growth(r_pct * 10, d)

\* the k - 1 coupons every 28 days from the valuation date, then the
\* principal with the last coupon at T
FrnScheduleForward(T, p) ==
    [j \in 1..p.k |->
        IF j < p.k
        THEN [t |-> FrnStep * j, a |-> IF j = 1 THEN p.C1 ELSE p.C]
        ELSE [t |-> T, a |-> Face * One + (IF p.k > 1 THEN p.C ELSE p.C1)]]

\* pay_times and pay_amts of an FRN row: k - 1 coupons before T, then the
\* principal with the last coupon at T
FrnSchedule(T, p) ==
    [j \in 1..p.k |->
        IF j < p.k
        THEN [t |-> p.rem + FrnStep * (j - 1), a |-> IF j = 1 THEN p.C1 ELSE p.C]
        ELSE [t |-> T, a |-> Face * One + (IF p.k > 1 THEN p.C ELSE p.C1)]]

\* pre_T_dates of a fixed_bond row: step * 1..floor(T / step), without a
\* date that is T itself
BondCouponDates(T) ==
    LET k == T \div BondStep
    IN  [j \in 1..(IF k > 0 /\ BondStep * k = T THEN k - 1 ELSE k) |-> BondStep * j]

\* the coupons before T and the final cash flow at T of a fixed_bond row
BondSchedule(T, coupon) ==
    LET dates == BondCouponDates(T)
        last_cpn_time == IF Len(dates) > 0 THEN dates[Len(dates)] ELSE 0
        c_amt == (coupon * BondStep) \div DayCount
        final_cf == Face * One + (coupon * (T - last_cpn_time)) \div DayCount
    IN  [j \in 1..Len(dates) + 1 |->
            IF j <= Len(dates) THEN [t |-> dates[j], a |-> c_amt]
            ELSE [t |-> T, a |-> final_cf]]

\* the flows of a schedule at or before S, each discounted on the curve
PreKnownSum(pillars, S, sched) ==
    SumSeq([i \in 1..Len(sched) |->
              IF sched[i].t <= S THEN Discounted(sched[i].a, df_func(pillars, sched[i].t)) ELSE 0])

RECURSIVE SelectFrom(_, _)
\* the flows of a schedule at or after S
SelectFrom(sched, S) ==
    IF sched = <<>> THEN <<>>
    ELSE IF Head(sched).t >= S THEN <<Head(sched)>> \o SelectFrom(Tail(sched), S)
    ELSE SelectFrom(Tail(sched), S)

RECURSIVE SelectAfter(_, _)
\* future_times and future_amts: the flows of a schedule after S
SelectAfter(sched, S) ==
    IF sched = <<>> THEN <<>>
    ELSE IF Head(sched).t > S THEN <<Head(sched)>> \o SelectAfter(Tail(sched), S)
    ELSE SelectAfter(Tail(sched), S)

(***************************************************************************)
(* The Sequential Bootstrap Driver, bootstrap_from_curve_df: its state is  *)
(* the store, the cached overnight rate and the error it raised, if any.   *)
(***************************************************************************)
NoError == "none"
Raise(st, e) == [st EXCEPT !.err = e]
Continue(st, T, v) == [st EXCEPT !.pillars = SetPillar(st.pillars, T, v)]

\* the store of the call before, kept
ReusedStore(leftover) == leftover

\* pillars = {0.0: 1.0}: a new dict in each call, whatever an earlier call left
NewStore(leftover) == 0 :> One

\* the cached rate of the call before, kept
ReusedRateCache(leftover) == leftover

\* on_rate_pct = None, in each call
NewRateCache(leftover) == None

\* the key of df.sort_values("tenor_days") for a build whose sort keeps
\* equal tenors in index order, and for one that emits them reversed
SortsBefore(a, b, kind) ==
    \/ a.tenor_days < b.tenor_days
    \/ /\ a.tenor_days = b.tenor_days
       /\ IF kind = "stable" THEN a.pos < b.pos ELSE a.pos > b.pos

RECURSIVE SortRows(_, _)
SortRows(rows, kind) ==
    IF rows = {} THEN <<>>
    ELSE LET first == CHOOSE a \in rows : \A b \in rows \ {a} : SortsBefore(a, b, kind)
         IN  <<first>> \o SortRows(rows \ {first}, kind)

\* the table left in its input order
unsorted_values(curve_df, kind) == curve_df

\* df = curve_df.copy(); ...; df = df.sort_values("tenor_days")
sort_values(curve_df, kind) == SortRows(Range(curve_df), kind)

\* df["type"].to_list()
TypeList(df) == {df[j].type : j \in 1..Len(df)}

\* the overnight_rate branch
RowOvernight(st, r) ==
    IF IsNa(r.dirty_price) THEN Raise(st, "MissingPrice")
    ELSE LET rate == OvernightRate(Val(r.dirty_price))
         IN  [Continue(st, r.tenor_days, OvernightDF(rate)) EXCEPT !.on_rate_pct = Some(OvernightPct(rate))]

\* the zero_coupon branch
RowZeroCoupon(st, r) ==
    IF ~HasPrice(r) THEN Raise(st, "MissingPrice")
    ELSE Continue(st, r.tenor_days, _pick_price(r) \div CetesFace)

\* which way _solve_df_T_loglinear_generic takes for T > S
SolverPath(price, pre_known_sum, df_S, S, T, future) ==
    LET f_lo == pv_given_dfT(BracketLo, pre_known_sum, df_S, S, T, future) - price
        f_hi == pv_given_dfT(df_S, pre_known_sum, df_S, S, T, future) - price
    IN  IF TakesFallback(f_lo, f_hi) THEN "fallback"
        ELSE IF BracketFails(f_lo, f_hi) THEN "raise"
        ELSE "brentq"

\* lines 238-242 and 298-302: how a coupon-bearing row got its df_T, read
\* off the curve for T <= S, from the solver for T > S
SolverUse(pillars, price, T, pre_known_sum, future) ==
    LET S == SetMax(DOMAIN pillars)
        df_S == df_func(pillars, S)
    IN  IF T <= S
        THEN [path |-> "curve", S |-> S, T |-> T, df_S |-> df_S, value |-> df_func(pillars, T)]
        ELSE [path |-> SolverPath(price, pre_known_sum, df_S, S, T, future),
              S |-> S, T |-> T, df_S |-> df_S,
              value |-> Solve(price, pre_known_sum, df_S, S, T, future)]

\* df_T of a coupon-bearing row, then max(1e-12, min(df_T, df_func(S)))
SolvedPillar(pillars, price, T, pre_known_sum, future) ==
    LET S == SetMax(DOMAIN pillars)
        df_S == df_func(pillars, S)
        df_T == IF T <= S THEN df_func(pillars, T)
                ELSE Solve(price, pre_known_sum, df_S, S, T, future)
    IN  Max(DfFloor, Min(df_T, df_S))

\* the fixed_bond branch
RowFixedBond(st, r) ==
    IF ~HasPrice(r) THEN Raise(st, "MissingPrice")
    ELSE IF NonPositivePillar(st.pillars) THEN Raise(st, "InvalidPillars")
    ELSE LET T == r.tenor_days
             S == SetMax(DOMAIN st.pillars)
             sched == BondSchedule(T, Val(r.coupon))
             coupons == SubSeq(sched, 1, Len(sched) - 1)
             future == SelectAfter(coupons, S) \o <<sched[Len(sched)]>>
             pre_known_sum == PreKnownSum(st.pillars, S, coupons)
             use == SolverUse(st.pillars, _pick_price(r), T, pre_known_sum, future)
         IN  IF use.path = "raise" THEN Raise(st, "SolverError")
             ELSE [Continue(st, T, SolvedPillar(st.pillars, _pick_price(r), T, pre_known_sum, future))
                     EXCEPT !.solve = Some(use)]

\* only a cached rate answers
HasCachedRateOnly(st) == ~IsNa(st.on_rate_pct)

\* _ensure_on_rate_pct() can answer
HasAnchorRate(st) == ~IsNa(st.on_rate_pct) \/ 1 \in DOMAIN st.pillars

\* _ensure_on_rate_pct()
_ensure_on_rate_pct(st) ==
    IF ~IsNa(st.on_rate_pct) THEN Val(st.on_rate_pct) ELSE PctFromDF1(st.pillars[1])

\* the floating_bondes_d / _f / _g branch
RowFrn(st, r) ==
    IF ~HasAnchorRate(st) THEN Raise(st, "MissingAnchorRate")
    ELSE LET T == r.tenor_days
             r_pct == _ensure_on_rate_pct(st)
             cached == [st EXCEPT !.on_rate_pct = Some(r_pct)]
             p == _frn_28day_coupon_params(T, r_pct, _normalize_spread_pct(r.coupon))
             S == SetMax(DOMAIN st.pillars)
             sched == FrnSchedule(T, p)
             price == IF ~IsNa(r.dirty_price) THEN Val(r.dirty_price)
                      ELSE Val(r.clean_price) + FrnAccrued(p.d, r_pct)
         IN  IF p.k <= 0 THEN Continue(cached, T, st.pillars[S])
             ELSE IF ~HasPrice(r) THEN Raise(cached, "MissingPrice")
             ELSE IF NonPositivePillar(st.pillars) THEN Raise(cached, "InvalidPillars")
             ELSE LET use == SolverUse(st.pillars, price, T,
                                       PreKnownSum(st.pillars, S, sched), SelectAfter(sched, S))
                  IN  IF use.path = "raise" THEN Raise(cached, "SolverError")
                      ELSE [Continue(cached, T, SolvedPillar(st.pillars, price, T,
                                                             PreKnownSum(st.pillars, S, sched),
                                                             SelectAfter(sched, S)))
                              EXCEPT !.solve = Some(use)]

\* a row of an unknown family passed over
RowUnknownSkipped(st, r) == st

\* line 309: raise ValueError("Unknown instrument type")
RowUnknown(st, r) == Raise(st, "UnknownInstrumentType")

\* the dispatch on the row's family, lines 190-309
Dispatch(st, r) ==
    LET inst_type == Normalize(r.type)
    IN  IF inst_type = "overnight_rate" THEN RowOvernight(st, r)
        ELSE IF inst_type = "zero_coupon" THEN RowZeroCoupon(st, r)
        ELSE IF inst_type = "fixed_bond" THEN RowFixedBond(st, r)
        ELSE IF inst_type \in FrnTypes THEN RowFrn(st, r)
        ELSE RowUnknown(st, r)

\* no row skipped
NeverSkips(sorted) == FALSE

\* line 188: "overnight_rate" not in df["type"].to_list()
SkipsRows(sorted) == "overnight_rate" \notin TypeList(sorted)

\* one iteration of the main loop on row r of the sorted table df
ProcessRow(st, r, sorted) ==
    IF SkipsRows(sorted) THEN st ELSE Dispatch([st EXCEPT !.solve = None], r)

\* ((1.0 / DF) - 1.0) * (day_count_convention / T) * 100.0, in hundredths
\* of a percent, for a tenor of t / unit days; a rate beyond the integers of
\* the grid is its largest
ZeroRateIn(DF, t, unit) ==
    IF DF = 0 THEN Inf
    ELSE LET q == (IF DF > 0 THEN One - DF ELSE DF - One) * DayCount * 100 * unit
             D == (IF DF > 0 THEN DF ELSE -DF) * t
         IN  IF q \div D >= Inf \div 100 THEN Inf
             ELSE (q \div D) * 100 + ((q % D) * 100) \div D

\* the same for a tenor of T whole days
ZeroRate(DF, T) == ZeroRateIn(DF, T, 1)

\* T.astype(int) of a tenor of t / unit days: the fraction is cut off
AsInt(t, unit) == t \div unit

RECURSIVE Ascending(_)
Ascending(S) ==
    IF S = {} THEN <<>>
    ELSE LET m == CHOOSE x \in S : \A y \in S : x <= y
         IN  <<m>> \o Ascending(S \ {m})

\* lines 311-319 for a store whose tenors are in 1 / unit days: one point
\* per pillar with tenor > 0, ascending
ZeroCurveIn(store, unit) ==
    LET T == Ascending({t \in DOMAIN store : t > 0})
    IN  [j \in 1..Len(T) |->
            [days_to_maturity |-> AsInt(T[j], unit), zero_rate |-> ZeroRateIn(store[T[j]], T[j], unit)]]

\* the zero curve the Driver returns, the tenors of its store whole days
ZeroCurve(pillars) == ZeroCurveIn(pillars, 1)

(***************************************************************************)
(* The state.                                                              *)
(***************************************************************************)
VARIABLES
    entry,        \* the function the caller entered: the Driver itself or a wrapper
    sort_kind,    \* how the build's default sort orders equal tenors
    nodes,        \* the caller's table, grouped by valuation date
    columns,      \* the columns of the caller's table
    opc,          \* where the wrapper (or the direct caller) is
    gi,           \* the date group the wrapper's loop is at
    results,      \* the wrapper's list of per-date zero tables
    ret,          \* what the wrapper returned
    curve_df,     \* the table handed to the Driver
    dpc,          \* where the Driver is
    df,           \* the Driver's sorted copy of curve_df
    idx,          \* the row of df the main loop is at
    pillars,      \* the Discount-Factor Store
    on_rate_pct,  \* the cached overnight rate
    err,          \* the error the Driver raised
    out,          \* the zero table the Driver returned
    solve,        \* how the row processed last got its df_T, if it bears coupons
    calls,        \* the Driver's finished invocations, in order
    probe,        \* a function of the program evaluated on its own: the arguments and the value
    workers,      \* the Driver invocations of a pool of workers, one per date, each with its locals
    REGISTERED,   \* registry.py: the module's _REGISTERED flag
    LOCK,         \* registry.py: the thread that holds _LOCK, 0 when it is free
    callers,      \* the threads that call register_all: where each is, its argument, its calls left
    registrations, \* what was done to the registries and to the flag, in order
    series_ids,   \* utils.py: the ids passed to fetch_banxico_series_batched
    max_chunk,    \* utils.py: its max_chunk argument
    uniq_ids,     \* utils.py: the ids without repetitions
    fetch_out,    \* utils.py: out, the series objects collected
    fetch_i,      \* utils.py: i, the position in uniq_ids
    chunk,        \* utils.py: the chunk size
    fpc,          \* where fetch_banxico_series_batched is
    requests      \* the requests sent, in order: the ids of each and the server's answer

vars == <<entry, sort_kind, nodes, columns, opc, gi, results, ret, curve_df, dpc, df, idx,
          pillars, on_rate_pct, err, out, solve, calls, probe, workers,
          REGISTERED, LOCK, callers, registrations,
          series_ids, max_chunk, uniq_ids, fetch_out, fetch_i, chunk, fpc, requests>>

registry_vars == <<REGISTERED, LOCK, callers, registrations>>
fetch_vars == <<series_ids, max_chunk, uniq_ids, fetch_out, fetch_i, chunk, fpc, requests>>

\* the caller's inputs, and the state of the parts of the program that a
\* bootstrap does not touch
input_vars == <<entry, sort_kind, nodes, columns, probe, workers, registry_vars, fetch_vars>>
wrapper_vars == <<opc, gi, results, ret>>
driver_vars == <<df, idx, pillars, on_rate_pct, err, out, solve>>

Entries == {"driver", "rates_to_curves", "bootstrap"}

\* fetch_banxico_series_batched has not been called
FetchIdle ==
    /\ series_ids = <<>>
    /\ max_chunk = 10
    /\ uniq_ids = <<>>
    /\ fetch_out = <<>>
    /\ fetch_i = 0
    /\ chunk = 1
    /\ fpc = "idle"
    /\ requests = <<>>

\* registry.py lines 21-22: the lock is free, nothing is registered, no call
\* of register_all has been made
RegistryIdle ==
    /\ REGISTERED = FALSE
    /\ LOCK = 0
    /\ callers = <<>>
    /\ registrations = <<>>

\* The columns of a table that carries the names both wrappers read.
AllColumns ==
    {"time_index", "type", "tenor_days", "days_to_maturity", "clean_price", "dirty_price",
     "coupon", "current_coupon"}
\* bootstrap.py line 343: required
Required == {"time_index", "type", "tenor_days", "clean_price", "dirty_price", "coupon"}
\* rates_to_curves.py lines 56-59: the columns the cast reads
CastColumns == {"days_to_maturity", "clean_price", "dirty_price", "current_coupon"}
\* The tables a wrapper may get: complete, or with one column absent.
ColumnChoices ==
    {AllColumns} \cup {AllColumns \ {c} : c \in {"time_index", "type", "clean_price", "coupon", "current_coupon"}}
SortKinds == {"stable", "ties_reversed"}

Init ==
    /\ entry \in Entries
    /\ sort_kind \in SortKinds
    /\ nodes \in (IF entry = "driver" THEN {<<t>> : t \in DirectTables} ELSE GroupedTables)
    /\ columns \in (IF entry = "driver" THEN {AllColumns} ELSE ColumnChoices)
    /\ opc = (IF entry = "driver" THEN "direct" ELSE "start")
    /\ gi = 1
    /\ results = <<>>
    /\ ret = <<>>
    /\ curve_df = <<>>
    /\ dpc = "idle"
    /\ df = <<>>
    /\ idx = 1
    /\ pillars = 0 :> One
    /\ on_rate_pct = None
    /\ err = NoError
    /\ out = <<>>
    /\ solve = None
    /\ calls = <<>>
    /\ probe = None
    /\ workers = <<>>
    /\ RegistryIdle
    /\ FetchIdle

(***************************************************************************)
(* bootstrap_from_curve_df, step by step.                                  *)
(***************************************************************************)
\* the state the main loop folds over
DriverState == [pillars |-> pillars, on_rate_pct |-> on_rate_pct, err |-> err, solve |-> solve]

Finished(status, e, zdf) == [input |-> curve_df, status |-> status, err |-> e, out |-> zdf]

\* a direct caller calls the Driver on its table (again, after a call ended)
DirectCall ==
    /\ entry = "driver"
    /\ dpc \in {"idle", "returned", "raised"}
    /\ Len(calls) < MaxCalls
    /\ curve_df' = nodes[1]
    /\ dpc' = "called"
    /\ UNCHANGED <<input_vars, wrapper_vars, driver_vars, calls>>

\* lines 124-132: copy, cast, sort; a new store and an unset rate cache
DriverStart ==
    /\ dpc = "called"
    /\ df' = sort_values(curve_df, sort_kind)
    /\ idx' = 1
    /\ pillars' = NewStore(pillars)
    /\ on_rate_pct' = NewRateCache(on_rate_pct)
    /\ err' = NoError
    /\ out' = <<>>
    /\ solve' = None
    /\ dpc' = "loop"
    /\ UNCHANGED <<input_vars, wrapper_vars, curve_df, calls>>

\* lines 188-189: the table has no overnight_rate row, the row is skipped
DriverSkip ==
    /\ dpc = "loop"
    /\ idx <= Len(df)
    /\ "type" \in columns
    /\ SkipsRows(df)
    /\ idx' = idx + 1
    /\ UNCHANGED <<input_vars, wrapper_vars, curve_df, dpc, df, pillars, on_rate_pct, err, out, solve, calls>>

\* lines 190-306: the row's family sets its pillar
DriverStep ==
    /\ dpc = "loop"
    /\ idx <= Len(df)
    /\ "type" \in columns
    /\ ~SkipsRows(df)
    /\ LET st == ProcessRow(DriverState, df[idx], df)
       IN  /\ st.err = NoError
           /\ pillars' = st.pillars
           /\ on_rate_pct' = st.on_rate_pct
           /\ solve' = st.solve
    /\ idx' = idx + 1
    /\ UNCHANGED <<input_vars, wrapper_vars, curve_df, dpc, df, err, out, calls>>

\* a raise inside the main loop ends the call
DriverRaise ==
    /\ dpc = "loop"
    /\ idx <= Len(df)
    /\ "type" \in columns
    /\ ~SkipsRows(df)
    /\ LET st == ProcessRow(DriverState, df[idx], df)
       IN  /\ st.err # NoError
           /\ pillars' = st.pillars
           /\ on_rate_pct' = st.on_rate_pct
           /\ err' = st.err
           /\ solve' = st.solve
           /\ calls' = Append(calls, Finished("raised", st.err, <<>>))
    /\ dpc' = "raised"
    /\ UNCHANGED <<input_vars, wrapper_vars, curve_df, df, idx, out>>

\* line 186: r["type"] of a table without that column raises KeyError
DriverKeyError ==
    /\ dpc = "loop"
    /\ idx <= Len(df)
    /\ "type" \notin columns
    /\ err' = "KeyError"
    /\ calls' = Append(calls, Finished("raised", "KeyError", <<>>))
    /\ dpc' = "raised"
    /\ UNCHANGED <<input_vars, wrapper_vars, curve_df, df, idx, pillars, on_rate_pct, out, solve>>

\* lines 311-319: the zero curve of the pillars with tenor > 0
DriverReturn ==
    /\ dpc = "loop"
    /\ idx > Len(df)
    /\ out' = ZeroCurve(pillars)
    /\ calls' = Append(calls, Finished("returned", NoError, ZeroCurve(pillars)))
    /\ dpc' = "returned"
    /\ UNCHANGED <<input_vars, wrapper_vars, curve_df, df, idx, pillars, on_rate_pct, err, solve>>

(***************************************************************************)
(* The wrappers over valuation dates: boostrap_mbono_curve of              *)
(* rates_to_curves.py (the one register_etl_builders wires) and            *)
(* boostrap_mbono_curve of bootstrap.py.  A date is its place in the       *)
(* ascending order of the table's dates.                                   *)
(***************************************************************************)
Looping == opc \in {"start", "loop"} /\ dpc = "idle" /\ gi <= Len(nodes)

\* g.set_index("days_to_maturity")["zero_rate"].to_dict()
ToDict(zdf) ==
    [t \in {zdf[j].days_to_maturity : j \in 1..Len(zdf)} |->
        LET j == SetMax({n \in 1..Len(zdf) : zdf[n].days_to_maturity = t})
        IN  zdf[j].zero_rate]

\* final_df.groupby(["time_index", "unique_identifier"]).apply(...): one
\* entry per date that has a row in the concatenated table
Grouped(res) ==
    LET dates == {res[j].time_index : j \in {n \in 1..Len(res) : Len(res[n].zdf) > 0}}
    IN  [d \in dates |-> ToDict((CHOOSE r \in Range(res) : r.time_index = d).zdf)]

RECURSIVE Concat(_)
\* pd.concat(results, ignore_index=True), each row tagged with its date
Concat(res) ==
    IF res = <<>> THEN <<>>
    ELSE [j \in 1..Len(Head(res).zdf) |-> [time_index |-> Head(res).time_index] @@ Head(res).zdf[j]]
         \o Concat(Tail(res))

\* curve_df.shape[0] < 5
TooFewRows(group) == Len(group) < MinRows

\* rates_to_curves.py lines 51-52: a group of fewer than 5 rows is passed over
RtcSkipGroup ==
    /\ entry = "rates_to_curves"
    /\ Looping
    /\ "time_index" \in columns
    /\ TooFewRows(nodes[gi])
    /\ gi' = gi + 1
    /\ opc' = "loop"
    /\ UNCHANGED <<input_vars, results, ret, curve_df, dpc, driver_vars, calls>>

\* rates_to_curves.py lines 54-63: the group is copied, cast and handed to the Driver
RtcCallDriver ==
    /\ entry = "rates_to_curves"
    /\ Looping
    /\ "time_index" \in columns
    /\ CastColumns \subseteq columns
    /\ ~TooFewRows(nodes[gi])
    /\ curve_df' = nodes[gi]
    /\ dpc' = "called"
    /\ opc' = "call"
    /\ UNCHANGED <<input_vars, gi, results, ret, driver_vars, calls>>

\* rates_to_curves.py line 49 (groupby on an absent time_index) and lines
\* 56-59 (the cast reads an absent column): KeyError
RtcKeyError ==
    /\ entry = "rates_to_curves"
    /\ Looping
    /\ \/ "time_index" \notin columns
       \/ ~TooFewRows(nodes[gi]) /\ ~(CastColumns \subseteq columns)
    /\ opc' = "key_error"
    /\ UNCHANGED <<input_vars, gi, results, ret, curve_df, dpc, driver_vars, calls>>

\* bootstrap.py lines 343-346: a required column is absent, KeyError
BsSchemaError ==
    /\ entry = "bootstrap"
    /\ opc = "start"
    /\ Len(nodes) > 0
    /\ ~(Required \subseteq columns)
    /\ opc' = "schema_error"
    /\ UNCHANGED <<input_vars, gi, results, ret, curve_df, dpc, driver_vars, calls>>

\* bootstrap.py lines 349-350: every group is handed to the Driver
BsCallDriver ==
    /\ entry = "bootstrap"
    /\ Looping
    /\ Required \subseteq columns
    /\ curve_df' = nodes[gi]
    /\ dpc' = "called"
    /\ opc' = "call"
    /\ UNCHANGED <<input_vars, gi, results, ret, driver_vars, calls>>

\* the Driver returned: the zero table is tagged with its date and kept
WrapperCollect ==
    /\ opc = "call"
    /\ dpc = "returned"
    /\ results' = Append(results, [time_index |-> gi, zdf |-> out])
    /\ gi' = gi + 1
    /\ opc' = "loop"
    /\ dpc' = "idle"
    /\ UNCHANGED <<input_vars, ret, curve_df, driver_vars, calls>>

\* the Driver raised: the error is dropped and the loop goes to the next date
WrapperSwallow ==
    /\ opc = "call"
    /\ dpc = "raised"
    /\ gi' = gi + 1
    /\ opc' = "loop"
    /\ dpc' = "idle"
    /\ UNCHANGED <<input_vars, results, ret, curve_df, driver_vars, calls>>

\* rates_to_curves.py lines 62-65 (except: raise e) and bootstrap.py line 350
\* (no handler): the Driver raised, the wrapper raises the same error
WrapperRaise ==
    /\ opc = "call"
    /\ dpc = "raised"
    /\ opc' = "raised"
    /\ dpc' = "idle"
    /\ UNCHANGED <<input_vars, gi, results, ret, curve_df, driver_vars, calls>>

\* rates_to_curves.py lines 42-44 and 69-85: the empty frame, or the curve
\* of each date that has points
RtcReturn ==
    /\ entry = "rates_to_curves"
    /\ opc \in {"start", "loop"}
    /\ dpc = "idle"
    /\ gi > Len(nodes)
    /\ ret' = (IF Len(results) = 0 THEN <<>> ELSE Grouped(results))
    /\ opc' = "done"
    /\ UNCHANGED <<input_vars, gi, results, curve_df, dpc, driver_vars, calls>>

\* every Driver call of the run returned a table without rows
AllEmpty(res) == Len(res) > 0 /\ \A j \in 1..Len(res) : Len(res[j].zdf) = 0

\* rates_to_curves.py lines 71-79: groupby(...).apply(...) of a table without
\* rows gives a frame, not a series, and .rename("curve") of a frame raises
\* TypeError in the pandas builds that look the mapper up in the index;
\* RtcReturn is the outcome of a build that does not.
RtcRenameError ==
    /\ entry = "rates_to_curves"
    /\ opc \in {"start", "loop"}
    /\ dpc = "idle"
    /\ gi > Len(nodes)
    /\ AllEmpty(results)
    /\ opc' = "type_error"
    /\ UNCHANGED <<input_vars, gi, results, ret, curve_df, dpc, driver_vars, calls>>

\* bootstrap.py lines 340-341 and 354: the empty frame, or the long table
BsReturn ==
    /\ entry = "bootstrap"
    /\ opc \in {"start", "loop"}
    /\ dpc = "idle"
    /\ gi > Len(nodes)
    /\ ret' = Concat(results)
    /\ opc' = "done"
    /\ UNCHANGED <<input_vars, gi, results, curve_df, dpc, driver_vars, calls>>

Next ==
    \/ DirectCall
    \/ DriverStart
    \/ DriverSkip
    \/ DriverStep
    \/ DriverRaise
    \/ DriverKeyError
    \/ DriverReturn
    \/ RtcSkipGroup
    \/ RtcCallDriver
    \/ RtcKeyError
    \/ BsSchemaError
    \/ BsCallDriver
    \/ WrapperCollect
    \/ WrapperRaise
    \/ RtcReturn
    \/ RtcRenameError
    \/ BsReturn

Spec == Init /\ [][Next]_vars

(***************************************************************************)
(* Properties of the per-date Driver run.                                  *)
(***************************************************************************)
InRun == dpc \in {"loop", "returned", "raised"}
Ended == dpc \in {"returned", "raised"}

\* the rows of df the main loop has reached so far, the last of them the
\* row that raised when the run raised
Reached == IF dpc = "raised" THEN idx ELSE idx - 1

\* the table handed to the Driver is an instrument set: its rows have a type
Typed == "type" \in columns

HasOvernightRow(t) == "overnight_rate" \in TypeList(t)
IsUnknown(r) == Normalize(r.type) \notin KnownTypes
IsFrn(r) == Normalize(r.type) \in FrnTypes
IsOvernight(r) == Normalize(r.type) = "overnight_rate"

\* C1: in every state of a Driver run the store holds tenor 0 with discount
\* factor 1.0, whatever rows (tenor_days >= 0) were processed.
C1_TenorZeroIsOne == InRun => (0 \in DOMAIN pillars /\ pillars[0] = One)

\* C2: after every step of a Driver run the discount factors of the store
\* are non-increasing in tenor, for every instrument family.
C2_MonotoneDF ==
    InRun => \A t1, t2 \in DOMAIN pillars : t1 < t2 => pillars[t1] >= pillars[t2]

\* C3: in every state of a Driver run every discount factor of the store is
\* strictly positive, whatever prices the rows carry.
C3_PositiveDF == InRun => \A t \in DOMAIN pillars : pillars[t] > 0

\* C4: the rows are processed in non-decreasing tenor order, and rows of
\* equal tenor in their input order.
C4_StableTenorOrder ==
    InRun => \A a, b \in 1..Min(Reached, Len(df)) :
                a < b => /\ df[a].tenor_days <= df[b].tenor_days
                         /\ df[a].tenor_days = df[b].tenor_days => df[a].pos < df[b].pos

\* the caller's row without its index label
Raw(r) == Row(r.type, r.tenor_days, r.clean_price, r.dirty_price, r.coupon)

\* the caller's table with its rows in every other order
Reorderings(t) ==
    {Indexed([j \in 1..Len(t) |-> Raw(t[p[j]])]) : p \in Permutations(1..Len(t))}

\* rows of the table that share a tenor do not differ
TiesIdentical(t) ==
    \A a, b \in 1..Len(t) : t[a].tenor_days = t[b].tenor_days => Raw(t[a]) = Raw(t[b])

RECURSIVE MainLoop(_, _, _)
\* the main loop from row j of df on, to its end or to the first raise
MainLoop(st, sorted, j) ==
    IF j > Len(sorted) \/ st.err # NoError THEN st
    ELSE MainLoop(ProcessRow(st, sorted[j], sorted), sorted, j + 1)

\* bootstrap_from_curve_df(table) as one call: what it raises or returns
DriverOutcome(table, kind) ==
    LET st == MainLoop([pillars |-> NewStore(<<>>), on_rate_pct |-> NewRateCache(<<>>), err |-> NoError,
                        solve |-> None],
                       sort_values(table, kind), 1)
    IN  IF st.err # NoError THEN [status |-> "raised", err |-> st.err, out |-> <<>>]
        ELSE [status |-> "returned", err |-> NoError, out |-> ZeroCurve(st.pillars)]

\* what the run in progress raised or returned
ThisOutcome == [status |-> dpc, err |-> err, out |-> out]

\* C5 (as stated): the Driver's outcome is the same for every order of the
\* input rows, rows of equal tenor included.
C5_AnyOrderSameOutcome ==
    Ended => \A t \in Reorderings(curve_df) : DriverOutcome(t, sort_kind) = ThisOutcome

\* C5 (amended): the Driver's outcome is the same for every order of the
\* rows of an instrument set, provided rows that share a tenor are identical (so in
\* particular when the tenors are pairwise distinct).
C5_DistinctTenorsAnyOrder ==
    (Ended /\ Typed /\ TiesIdentical(curve_df))
        => \A t \in Reorderings(curve_df) : DriverOutcome(t, sort_kind) = ThisOutcome

\* a run that returned points for a table given out of tenor order
C5_Witness ==
    /\ dpc = "returned"
    /\ TiesIdentical(curve_df)
    /\ Len(out) >= 3
    /\ \E a, b \in 1..Len(curve_df) : a < b /\ curve_df[a].tenor_days > curve_df[b].tenor_days

\* C6: two Driver runs on the same table end alike; each run starts from
\* the store {0: 1.0} with no cached overnight rate and leaves the caller's
\* table as it was.
C6_RerunSameOutcome ==
    /\ \A a, b \in 1..Len(calls) : calls[a].input = calls[b].input => calls[a] = calls[b]
    /\ (dpc = "loop" /\ idx = 1) => (pillars = 0 :> One /\ IsNa(on_rate_pct))
    /\ (entry = "driver" /\ dpc # "idle") => (curve_df = nodes[1] /\ nodes[1] \in DirectTables)

\* a second run on the same table returned the points of the first, some of
\* them solved
C6_Witness ==
    /\ Len(calls) = 2
    /\ calls[1].input = calls[2].input
    /\ calls[2].status = "returned"
    /\ Len(calls[2].out) >= 3
    /\ \E j \in 1..Len(calls[2].input) : Normalize(calls[2].input[j].type) = "fixed_bond"

\* C7 (as stated): a date whose table holds a row of an unrecognised type
\* fails with the unknown-instrument-type error, whatever its other rows.
C7_UnknownTypeAlwaysFails ==
    (Ended /\ \E j \in 1..Len(curve_df) : IsUnknown(curve_df[j]))
        => (dpc = "raised" /\ err = "UnknownInstrumentType")

\* C7 (amended): a date whose table holds an overnight_rate row and a row of
\* an unrecognised type fails and returns no curve: with the
\* unknown-instrument-type error when the loop reaches the unrecognised row,
\* with the error of a row before it in tenor order when that row fails first.
C7_UnknownTypeFailsWithAnchor ==
    (Ended /\ HasOvernightRow(curve_df) /\ \E j \in 1..Len(curve_df) : IsUnknown(curve_df[j]))
        => /\ dpc = "raised"
           /\ out = <<>>
           /\ \A j \in 1..(idx - 1) : ~IsUnknown(df[j])
           /\ IsUnknown(df[idx]) <=> err = "UnknownInstrumentType"

\* the loop processed a row, reached a row of an unknown family and raised
C7_Witness ==
    /\ dpc = "raised"
    /\ err = "UnknownInstrumentType"
    /\ idx > 1
    /\ DOMAIN pillars # {0}

\* C8 (as stated): an FRN row with no overnight_rate row before it in tenor
\* order makes the run fail with the missing-anchor-rate error.
C8_FrnBeforeAnchorFails ==
    InRun => \A j \in 1..Min(Reached, Len(df)) :
                (IsFrn(df[j]) /\ \A n \in 1..(j - 1) : ~IsOvernight(df[n]))
                    => (dpc = "raised" /\ idx = j /\ err = "MissingAnchorRate")

\* C8 (amended): an FRN row that is dispatched (the date has an
\* overnight_rate row) while no overnight rate is cached fails with the
\* missing-anchor-rate error exactly when the store holds no pillar at tenor
\* 1; with such a pillar the rate is derived from it and cached.
C8_FrnNeedsRateOrDayOnePillar ==
    /\ (dpc = "raised" /\ IsFrn(df[idx]) /\ IsNa(on_rate_pct))
           => (err = "MissingAnchorRate" /\ 1 \notin DOMAIN pillars)
    /\ (dpc = "raised" /\ err = "MissingAnchorRate")
           => (IsFrn(df[idx]) /\ IsNa(on_rate_pct) /\ 1 \notin DOMAIN pillars)
    /\ (InRun /\ HasOvernightRow(curve_df))
           => \A j \in 1..Min(idx - 1, Len(df)) :
                 IsFrn(df[j]) => /\ ~IsNa(on_rate_pct)
                                 /\ \E n \in 1..(j - 1) : IsOvernight(df[n]) \/ df[n].tenor_days = 1

\* an FRN row was priced with a rate derived from the 1-day pillar of a
\* zero_coupon row, no overnight_rate row having been processed
C8_Witness ==
    /\ dpc = "loop"
    /\ idx > 2
    /\ IsFrn(df[idx - 1])
    /\ \A n \in 1..(idx - 1) : ~IsOvernight(df[n])
    /\ ~IsNa(on_rate_pct)

\* C9: a run on an instrument set with no overnight_rate row changes nothing: the
\* store stays {0: 1.0}, no rate is cached, nothing is raised and the curve
\* returned has no point.
C9_NoAnchorNoOp ==
    (InRun /\ Typed /\ ~HasOvernightRow(curve_df))
        => /\ pillars = 0 :> One
           /\ IsNa(on_rate_pct)
           /\ dpc # "raised"
           /\ dpc = "returned" => out = <<>>

\* a run returned after skipping rows, one of them of an unknown family
C9_Witness ==
    /\ dpc = "returned"
    /\ ~HasOvernightRow(curve_df)
    /\ Len(curve_df) >= 2
    /\ \E j \in 1..Len(curve_df) : IsUnknown(curve_df[j])

(***************************************************************************)
(* Properties of the wrappers.                                             *)
(***************************************************************************)
Wrapped == entry \in {"rates_to_curves", "bootstrap"}

\* a group of fewer than 5 rows never reaches the Driver, adds no result
\* and raises nothing; a group of 5 rows or more that the loop has passed
\* was handed to the Driver
ThresholdKept ==
    /\ \A j \in 1..Len(calls) : Len(calls[j].input) >= MinRows
    /\ dpc # "idle" => Len(curve_df) >= MinRows
    /\ \A j \in 1..Len(results) : Len(nodes[results[j].time_index]) >= MinRows
    /\ opc = "raised" => Len(nodes[gi]) >= MinRows
    /\ \A d \in 1..Min(gi - 1, Len(nodes)) :
          Len(nodes[d]) >= MinRows => \E j \in 1..Len(results) : results[j].time_index = d
    /\ Len(calls) = Cardinality({d \in 1..Min(IF opc \in {"call", "raised"} /\ dpc \in {"idle", "returned", "raised"} THEN gi ELSE gi - 1, Len(nodes)) :
                                    Len(nodes[d]) >= MinRows})

\* C10: the Orchestrator skips every date group of fewer than 5 rows (the
\* group never reaches the Driver, adds no row to the output and raises
\* nothing, malformed or not) and hands every group of 5 rows or more to the
\* Driver.
C10_SmallGroupsSkipped == Wrapped => ThresholdKept

(***************************************************************************)
(* Properties of the builders and of the solver.                           *)
(***************************************************************************)
\* the row processed last by a step of the main loop
Processed == df[idx - 1]
Stepped == dpc = "loop" /\ idx > 1 /\ ~SkipsRows(df)

IsZeroCoupon(r) == Normalize(r.type) = "zero_coupon"
DirtyElseClean(r) == IF r.dirty_price # <<>> THEN r.dirty_price[1] ELSE r.clean_price[1]
Priced(r) == r.dirty_price # <<>> \/ r.clean_price # <<>>

\* the row that sets the pillar at its tenor last
LastAtTenor(j) == \A n \in (j + 1)..Len(df) : df[n].tenor_days # df[j].tenor_days

PointAt(T) == {out[n].zero_rate : n \in {m \in 1..Len(out) : out[m].days_to_maturity = T}}

\* C11 (as stated): a run on a single zero_coupon row with tenor T > 0 and
\* price p returns exactly one point, at T, the zero rate of DF(T) = p / 10.
C11_SingleZeroCouponPoint ==
    (dpc = "returned" /\ Len(curve_df) = 1 /\ IsZeroCoupon(curve_df[1])
        /\ curve_df[1].tenor_days > 0 /\ Priced(curve_df[1]))
    => /\ Len(out) = 1
       /\ out[1].days_to_maturity = curve_df[1].tenor_days
       /\ pillars[curve_df[1].tenor_days] = DirtyElseClean(curve_df[1]) \div CetesFace

\* C11 (amended): in a run on a table that has an overnight_rate row, a
\* zero_coupon row with tenor T and price p (dirty if present, else clean)
\* inserts the pillar DF(T) = p / 10 without a call of the solver, and the
\* run returns at T > 0 the point with zero_rate = ((1/DF) - 1) * (360/T) *
\* 100 of the row that set the pillar last (tenor 91 and clean price 97.5
\* give DF(91) = 9.75 and the rate -355.03).
C11_ZeroCouponDirect ==
    /\ (Stepped /\ IsZeroCoupon(Processed))
           => /\ pillars[Processed.tenor_days] = DirtyElseClean(Processed) \div CetesFace
              /\ solve = None
    /\ (dpc = "returned" /\ ~SkipsRows(df))
           => \A j \in 1..Len(df) :
                 (IsZeroCoupon(df[j]) /\ df[j].tenor_days > 0 /\ LastAtTenor(j))
                     => LET DF == DirtyElseClean(df[j]) \div CetesFace
                        IN  /\ PointAt(df[j].tenor_days) = {ZeroRate(DF, df[j].tenor_days)}
                            /\ (df[j].tenor_days = 91 /\ DF = 9750)
                                   => PointAt(91) = {-35503}
    /\ (dpc = "returned" /\ Len(df) = 2 /\ IsOvernight(df[1]) /\ IsZeroCoupon(df[2])
          /\ df[1].tenor_days = 1 /\ df[2].tenor_days > 1)
           => Len(out) = 2

\* an overnight_rate row and the zero_coupon row of tenor 91 and clean
\* price 97.5 gave the point (91, -355.03)
C11_Witness ==
    /\ dpc = "returned"
    /\ Len(df) = 2
    /\ IsOvernight(df[1]) /\ df[1].tenor_days = 1
    /\ IsZeroCoupon(df[2]) /\ df[2].clean_price = <<97500>>
    /\ Len(out) = 2
    /\ pillars[91] = 9750
    /\ out[2] = [days_to_maturity |-> 91, zero_rate |-> -35503]
\* C12: processing an overnight_rate row with rate r (a value > 1.0 first
\* divided by 100) sets the pillar at tenor 1 to 1 / (1 + r/360) and the
\* cached overnight rate to r * 100 rounded to 2 decimals (0.105 gives
\* 10.50), and does not call the solver.
C12_OvernightSetsDayOne ==
    (Stepped /\ IsOvernight(Processed))
        => LET dp == Processed.dirty_price[1]
               rate == IF dp > One THEN dp \div 100 ELSE dp
           IN  /\ 1 \in DOMAIN pillars
               /\ pillars[1] = (One * DayCount * One) \div (DayCount * One + rate)
               /\ on_rate_pct = <<rate * 10>>
               /\ dp = 105 => on_rate_pct = <<1050>>
               /\ solve = None
SolverCalled == solve # <<>> /\ solve[1].path \in {"brentq", "fallback"}

\* C13: for every solver call with T > S and 0 < DF(S), the value returned
\* lies in (0, DF(S)], on the root-finder's path and on the fallback's.
C13_SolverRange ==
    (SolverCalled /\ solve[1].T > solve[1].S /\ solve[1].df_S > 0)
        => (0 < solve[1].value /\ solve[1].value <= solve[1].df_S)
\* C14: when price(DF(T)) - target has no sign change over the bracket, the
\* solver returns the fallback's value: the row gets its pillar, the run
\* goes on, and no run ends with an error of the solver.
C14_BracketFailureRecovered ==
    /\ dpc = "raised" => (err # "SolverError" /\ solve = None)
    /\ (InRun /\ solve # <<>> /\ solve[1].path = "fallback")
           => /\ err = NoError
              /\ dpc # "raised"
              /\ LET c == solve[1]
                 IN  pillars[c.T] = Max(DfFloor, Min(c.value, c.df_S))
    /\ \A j \in 1..Len(calls) : calls[j].err # "SolverError"

\* a run returned whose last row was solved by the fallback, from a
\* discount factor above the bracket's lower bound
C14_Witness ==
    /\ dpc = "returned"
    /\ solve # <<>>
    /\ solve[1].path = "fallback"
    /\ solve[1].df_S > BracketLo
    /\ Len(out) >= 2
\* C15: a run in which a discount factor <= 0 has been placed in the store
\* fails with the invalid-pillars error and returns no curve that holds
\* that pillar.
C15_NonPositivePillarFails ==
    (Ended /\ \E t \in DOMAIN pillars : pillars[t] <= 0)
        => (dpc = "raised" /\ err = "InvalidPillars" /\ out = <<>>)

\* a row that lacks the price its family needs
LacksPrice(r) ==
    \/ IsOvernight(r) /\ r.dirty_price = <<>>
    \/ /\ Normalize(r.type) \in {"zero_coupon", "fixed_bond"} \/ (IsFrn(r) /\ r.tenor_days > 0)
       /\ r.dirty_price = <<>>
       /\ r.clean_price = <<>>

\* C17 (as stated): a run on a table with a row that lacks its price fails
\* with the missing-price error and emits no curve.
C17_MissingPriceAlwaysFails ==
    (Ended /\ \E j \in 1..Len(curve_df) : LacksPrice(curve_df[j]))
        => (dpc = "raised" /\ err = "MissingPrice" /\ out = <<>>)

\* C17 (amended): a run on a table that has an overnight_rate row and a row
\* that lacks its price fails and emits no curve; the failing row is the
\* first such row in tenor order or a row before it, and the error at a row
\* that lacks its price is the missing-price error, or for an FRN row
\* without a cached or derivable overnight rate the missing-anchor-rate
\* error.  The missing-price error is raised at no other row.
C17_MissingPriceFailsWhenReached ==
    /\ (Ended /\ ~SkipsRows(df) /\ \E j \in 1..Len(df) : LacksPrice(df[j]))
           => /\ dpc = "raised"
              /\ out = <<>>
              /\ \A n \in 1..(idx - 1) : ~LacksPrice(df[n])
              /\ LacksPrice(df[idx])
                    => \/ err = "MissingPrice"
                       \/ /\ IsFrn(df[idx])
                          /\ err = "MissingAnchorRate"
                          /\ on_rate_pct = <<>>
                          /\ 1 \notin DOMAIN pillars
    /\ (dpc = "raised" /\ err = "MissingPrice") => LacksPrice(df[idx])

\* an FRN row without a price was reached after the overnight row, and the
\* run failed with the missing-price error
C17_Witness ==
    /\ dpc = "raised"
    /\ err = "MissingPrice"
    /\ idx > 1
    /\ IsFrn(df[idx])
    /\ on_rate_pct # <<>>
    /\ out = <<>>

\* C18: if a required column is absent from the (non-empty) input table,
\* the Orchestrator fails with a schema error before the Driver is invoked
\* for any date.
C18_SchemaErrorFirst ==
    (Wrapped /\ Len(nodes) > 0 /\ ~(Required \subseteq columns))
        => (dpc = "idle" /\ calls = <<>> /\ opc # "done")

\* a call of the Driver that raised
Failed(c) == c.status = "raised"

\* C19: when the Driver fails for a date, the failure reaches the wrapper's
\* caller: the wrapper ends raising the Driver's error and returns no table,
\* it never goes on to a later date, and its list holds no curve for the
\* failed date.
C19_FailureSurfaces ==
    Wrapped =>
        /\ (\E j \in 1..Len(calls) : Failed(calls[j]))
              => /\ Failed(calls[Len(calls)])
                 /\ \A j \in 1..(Len(calls) - 1) : ~Failed(calls[j])
                 /\ opc \in {"call", "raised"}
                 /\ err = calls[Len(calls)].err
                 /\ ret = <<>>
                 /\ \A j \in 1..Len(results) : results[j].time_index # gi
        /\ opc = "raised" => (err # NoError /\ ret = <<>>)
        /\ opc = "done" => \A j \in 1..Len(calls) : ~Failed(calls[j])

\* the wrapper raised at the second date, the curve of the first date built
C19_Witness ==
    /\ Wrapped
    /\ opc = "raised"
    /\ gi = 2
    /\ Len(results) = 1
    /\ Len(results[1].zdf) > 0
    /\ Failed(calls[Len(calls)])

(***************************************************************************)
(* The curve function on its own: df = _build_loglinear_df_func(pillars)   *)
(* for a valid pillar set (positive discount factors, the pillar (0, 1.0)  *)
(* among them), evaluated at 0 and at two times.                           *)
(***************************************************************************)
ProgramIdle ==
    /\ entry = "driver"
    /\ sort_kind = "stable"
    /\ nodes = << <<>> >>
    /\ columns = AllColumns
    /\ opc = "direct"
    /\ gi = 1
    /\ results = <<>>
    /\ ret = <<>>
    /\ curve_df = <<>>
    /\ dpc = "idle"
    /\ df = <<>>
    /\ idx = 1
    /\ on_rate_pct = None
    /\ err = NoError
    /\ out = <<>>
    /\ solve = None
    /\ calls = <<>>

PillarTenors == {1, 28, 91}
PillarDFs == {1, 500, 990, 1000, 9750}
ProbeTimes == {0, 1, 28, 29, 91, 92, 182, 364, MaxProbe}

ValidPillarSets ==
    UNION {[{0} \cup X -> PillarDFs] : X \in SUBSET PillarTenors}

CurveInit ==
    /\ ProgramIdle
    /\ pillars \in {P \in ValidPillarSets : P[0] = One}
    /\ probe = None
    /\ workers = <<>>
    /\ RegistryIdle
    /\ FetchIdle

\* df(0), df(t1), df(t2)
CurveEval ==
    /\ \E t1, t2 \in ProbeTimes :
          /\ t1 <= t2
          /\ probe' = Some([t1 |-> t1, t2 |-> t2,
                            at0 |-> df_func(pillars, 0),
                            at1 |-> df_func(pillars, t1),
                            at2 |-> df_func(pillars, t2)])
    /\ UNCHANGED <<entry, sort_kind, nodes, columns, workers, registry_vars, fetch_vars, wrapper_vars,
                    curve_df, dpc, driver_vars, calls>>

CurveNext == CurveEval

CurveSpec == CurveInit /\ [][CurveNext]_vars

\* C16: for every valid pillar set, df_at(0) = 1.0, and df_at(t2) <=
\* df_at(t1) for all t2 >= t1 >= the last pillar's tenor, also when the last
\* two pillars have an increasing discount factor.
C16_ExtrapolationMonotone ==
    probe # <<>>
        => /\ probe[1].at0 = One
           /\ probe[1].t1 >= SetMax(DOMAIN pillars) => probe[1].at2 <= probe[1].at1

\* the curve function was evaluated at two times beyond the last of three
\* pillars, the last two having an increasing discount factor
C16_Witness ==
    /\ probe # <<>>
    /\ DOMAIN pillars = {0, 28, 91}
    /\ pillars[28] < pillars[91]
    /\ probe[1].t1 > 91
    /\ probe[1].t2 > probe[1].t1
    /\ probe[1].at2 <= probe[1].at1

(***************************************************************************)
(* The per-date Driver invocations run by a pool of workers, one worker    *)
(* per date, their row steps interleaved in any order.  The store and the  *)
(* rate cache are locals of bootstrap_from_curve_df (lines 131-132);       *)
(* pillars and on_rate_pct hold what was bound to these names last, by     *)
(* whichever worker.                                                       *)
(***************************************************************************)
WorkersInit ==
    /\ entry = "bootstrap"
    /\ sort_kind \in SortKinds
    /\ nodes \in GroupedTables
    /\ columns = AllColumns
    /\ opc = "start"
    /\ gi = 1
    /\ results = <<>>
    /\ ret = <<>>
    /\ curve_df = <<>>
    /\ dpc = "idle"
    /\ df = <<>>
    /\ idx = 1
    /\ pillars = 0 :> One
    /\ on_rate_pct = None
    /\ err = NoError
    /\ out = <<>>
    /\ solve = None
    /\ calls = <<>>
    /\ probe = None
    /\ RegistryIdle
    /\ FetchIdle
    /\ workers = [w \in 1..Len(nodes) |->
                    [pc |-> "called", df |-> <<>>, idx |-> 1, out |-> <<>>,
                     st |-> [pillars |-> <<>>, on_rate_pct |-> None, err |-> NoError, solve |-> None]]]

WorkerUnchanged ==
    UNCHANGED <<entry, sort_kind, nodes, columns, probe, registry_vars, fetch_vars, wrapper_vars,
                curve_df, dpc, df, idx, err, out, solve, calls>>

\* lines 124-132 in worker w
WorkerStart(w) ==
    /\ workers[w].pc = "called"
    /\ LET st == [pillars |-> NewStore(pillars), on_rate_pct |-> NewRateCache(on_rate_pct),
                  err |-> NoError, solve |-> None]
       IN  /\ workers' = [workers EXCEPT ![w] = [pc |-> "loop", df |-> sort_values(nodes[w], sort_kind),
                                                 idx |-> 1, out |-> <<>>, st |-> st]]
           /\ pillars' = st.pillars
           /\ on_rate_pct' = st.on_rate_pct
    /\ WorkerUnchanged

\* lines 185-309 in worker w: one row of the main loop
WorkerRow(w) ==
    /\ workers[w].pc = "loop"
    /\ workers[w].idx <= Len(workers[w].df)
    /\ LET st == ProcessRow(workers[w].st, workers[w].df[workers[w].idx], workers[w].df)
       IN  /\ workers' = [workers EXCEPT ![w].st = st,
                                         ![w].pc = IF st.err # NoError THEN "raised" ELSE "loop",
                                         ![w].idx = IF st.err # NoError THEN @ ELSE @ + 1]
           /\ pillars' = st.pillars
           /\ on_rate_pct' = st.on_rate_pct
    /\ WorkerUnchanged

\* lines 311-319 in worker w
WorkerReturn(w) ==
    /\ workers[w].pc = "loop"
    /\ workers[w].idx > Len(workers[w].df)
    /\ workers' = [workers EXCEPT ![w].out = ZeroCurve(workers[w].st.pillars), ![w].pc = "returned"]
    /\ UNCHANGED <<pillars, on_rate_pct>>
    /\ WorkerUnchanged

WorkersNext ==
    \/ \E w \in DOMAIN workers : WorkerStart(w)
    \/ \E w \in DOMAIN workers : WorkerRow(w)
    \/ \E w \in DOMAIN workers : WorkerReturn(w)

WorkersSpec == WorkersInit /\ [][WorkersNext]_vars

WorkerEnded(w) == workers[w].pc \in {"returned", "raised"}

\* what worker w raised or returned
WorkerOutcome(w) == [status |-> workers[w].pc, err |-> workers[w].st.err, out |-> workers[w].out]

\* C20: every invocation starts from a store holding only DF(0) = 1.0 and
\* from an unset rate cache, and whatever the order in which the dates are
\* started and however the workers' row steps interleave, each date ends
\* with the outcome of bootstrapping that date alone.
C20_DatesIndependent ==
    \A w \in DOMAIN workers :
        /\ (workers[w].pc = "loop" /\ workers[w].idx = 1)
              => (workers[w].st.pillars = (0 :> One) /\ workers[w].st.on_rate_pct = None)
        /\ WorkerEnded(w) => WorkerOutcome(w) = DriverOutcome(nodes[w], sort_kind)

\* the worker of the second date, whose floating-rate note comes before its
\* overnight row, raised for want of an anchor after the worker of the
\* first date had cached its overnight rate and returned its curve
C20_Witness ==
    /\ Len(nodes) = 2
    /\ workers[1].pc = "returned"
    /\ workers[1].st.on_rate_pct # None
    /\ Len(workers[1].out) > 1
    /\ workers[2].pc = "raised"
    /\ workers[2].st.err = "MissingAnchorRate"
    /\ on_rate_pct = None

(***************************************************************************)
(* Properties of the wrapper's loop over dates.                            *)
(***************************************************************************)
\* the dates the loop of rates_to_curves.py has passed that had the rows to
\* be handed to the Driver, ascending
RECURSIVE PassedDates(_)
PassedDates(n) ==
    IF n = 0 THEN <<>>
    ELSE IF TooFewRows(nodes[n]) THEN PassedDates(n - 1)
    ELSE Append(PassedDates(n - 1), n)

\* the date groups the wrapper has dealt with: those before gi, and the one
\* at gi once its call has ended
DatesDone == IF opc = "raised" \/ (opc = "call" /\ Ended) THEN gi ELSE gi - 1

\* C21: the wrapper of rates_to_curves.py on a table with all its columns
\* calls the Driver once per date of at least five rows, in ascending date
\* order, tags each returned table with its date, ends without an error,
\* and returns the mapping of exactly the dates whose table has points.
C21_OncePerDate ==
    (entry = "rates_to_curves" /\ columns = AllColumns)
        => /\ [j \in 1..Len(calls) |-> calls[j].input]
                 = [j \in 1..Len(PassedDates(DatesDone)) |-> nodes[PassedDates(DatesDone)[j]]]
           /\ \A j \in 1..Len(results) :
                 /\ results[j].time_index = PassedDates(DatesDone)[j]
                 /\ results[j].zdf = calls[j].out
           /\ opc # "type_error"
           /\ opc = "done"
                 => /\ DOMAIN ret = {d \in 1..Len(nodes) :
                                        ~TooFewRows(nodes[d])
                                        /\ Len(DriverOutcome(nodes[d], sort_kind).out) > 0}
                    /\ \A d \in DOMAIN ret : ret[d] = ToDict(DriverOutcome(nodes[d], sort_kind).out)

(***************************************************************************)
(* register_all of registry.py, called by the threads of one process.  A   *)
(* thread is at "idle" between calls, at "acquire" before with _LOCK, at    *)
(* "check" holding the lock before the test of the flag, at "indices"       *)
(* after register_etl_builders returned and at "set" after                  *)
(* register_pricing_indices returned.  The registries belong to the        *)
(* mainsequence library; a registration succeeds or raises (an import, a   *)
(* Constant lookup or registry.register may raise).                        *)
(***************************************************************************)
Threads == 1..MaxThreads

RegInit ==
    /\ ProgramIdle
    /\ pillars = 0 :> One
    /\ probe = None
    /\ workers = <<>>
    /\ FetchIdle
    /\ REGISTERED = FALSE
    /\ LOCK = 0
    /\ callers = [t \in Threads |-> [pc |-> "idle", override |-> FALSE, left |-> MaxRegisterCalls]]
    /\ registrations = <<>>

RegUnchanged ==
    UNCHANGED <<entry, sort_kind, nodes, columns, probe, workers, fetch_vars, wrapper_vars, curve_df,
                dpc, driver_vars, calls>>

Event(t, what) == [thread |-> t, what |-> what, override |-> callers[t].override]

\* a thread calls register_all(override=o)
RegCall(t) ==
    /\ callers[t].pc = "idle"
    /\ callers[t].left > 0
    /\ \E o \in BOOLEAN :
          callers' = [callers EXCEPT ![t] = [pc |-> "acquire", override |-> o, left |-> @.left - 1]]
    /\ UNCHANGED <<REGISTERED, LOCK, registrations>>
    /\ RegUnchanged

\* the lock is taken whoever holds it
RegAcquireUnlocked(t) ==
    /\ callers[t].pc = "acquire"
    /\ LOCK' = t
    /\ callers' = [callers EXCEPT ![t].pc = "check"]
    /\ UNCHANGED <<REGISTERED, registrations>>
    /\ RegUnchanged

\* line 34: with _LOCK, entered when the lock is free (no path of
\* register_all re-enters it, so the thread never holds it already)
RegAcquire(t) ==
    /\ callers[t].pc = "acquire"
    /\ LOCK = 0
    /\ LOCK' = t
    /\ callers' = [callers EXCEPT ![t].pc = "check"]
    /\ UNCHANGED <<REGISTERED, registrations>>
    /\ RegUnchanged

\* lines 35-36: already registered, return (the lock is released)
RegReturnEarly(t) ==
    /\ callers[t].pc = "check"
    /\ REGISTERED
    /\ LOCK' = 0
    /\ callers' = [callers EXCEPT ![t].pc = "idle"]
    /\ registrations' = Append(registrations, Event(t, "return_early"))
    /\ UNCHANGED REGISTERED
    /\ RegUnchanged

\* line 37: register_etl_builders(override=override) returns
RegEtl(t) ==
    /\ callers[t].pc = "check"
    /\ ~REGISTERED
    /\ callers' = [callers EXCEPT ![t].pc = "indices"]
    /\ registrations' = Append(registrations, Event(t, "etl_ok"))
    /\ UNCHANGED <<REGISTERED, LOCK>>
    /\ RegUnchanged

\* line 37: register_etl_builders raises; the with statement releases the lock
RegEtlRaise(t) ==
    /\ callers[t].pc = "check"
    /\ ~REGISTERED
    /\ LOCK' = 0
    /\ callers' = [callers EXCEPT ![t].pc = "idle"]
    /\ registrations' = Append(registrations, Event(t, "etl_raise"))
    /\ UNCHANGED REGISTERED
    /\ RegUnchanged

\* line 38: register_pricing_indices(override=override) returns
RegIndices(t) ==
    /\ callers[t].pc = "indices"
    /\ callers' = [callers EXCEPT ![t].pc = "set"]
    /\ registrations' = Append(registrations, Event(t, "indices_ok"))
    /\ UNCHANGED <<REGISTERED, LOCK>>
    /\ RegUnchanged

\* line 38: register_pricing_indices raises; the lock is released
RegIndicesRaise(t) ==
    /\ callers[t].pc = "indices"
    /\ LOCK' = 0
    /\ callers' = [callers EXCEPT ![t].pc = "idle"]
    /\ registrations' = Append(registrations, Event(t, "indices_raise"))
    /\ UNCHANGED REGISTERED
    /\ RegUnchanged

\* line 39: _REGISTERED = True, and the end of the with block
RegSetFlag(t) ==
    /\ callers[t].pc = "set"
    /\ REGISTERED' = TRUE
    /\ LOCK' = 0
    /\ callers' = [callers EXCEPT ![t].pc = "idle"]
    /\ registrations' = Append(registrations, Event(t, "flag"))
    /\ RegUnchanged

RegNext ==
    \/ \E t \in Threads : RegCall(t)
    \/ \E t \in Threads : RegAcquire(t)
    \/ \E t \in Threads : RegReturnEarly(t)
    \/ \E t \in Threads : RegEtl(t)
    \/ \E t \in Threads : RegEtlRaise(t)
    \/ \E t \in Threads : RegIndices(t)
    \/ \E t \in Threads : RegIndicesRaise(t)
    \/ \E t \in Threads : RegSetFlag(t)

RegSpec == RegInit /\ [][RegNext]_vars

\* the places of the log where something of the given kinds happened
Places(kinds) == {j \in 1..Len(registrations) : registrations[j].what \in kinds}

Touches == {"etl_ok", "etl_raise", "indices_ok", "indices_raise"}

\* what holds of register_all whichever way its callers interleave: the
\* flag is set at most once and only right after both registrations
\* succeeded in the same call, nothing touches a registry once it is set,
\* and a call that raised left it unset
FlagDiscipline ==
    /\ Cardinality(Places({"flag"})) <= 1
    /\ REGISTERED <=> Places({"flag"}) # {}
    /\ \A j \in Places({"flag"}) :
          /\ j >= 3
          /\ registrations[j - 1].what = "indices_ok"
          /\ registrations[j - 2].what = "etl_ok"
          /\ registrations[j - 1].thread = registrations[j].thread
          /\ registrations[j - 2].thread = registrations[j].thread
          /\ \A n \in Places(Touches) : n < j
          /\ \A n \in Places({"return_early"}) : n > j
    /\ \A n \in Places({"return_early"}) : Places({"flag"}) # {}
    /\ Cardinality({t \in Threads : callers[t].pc \in {"check", "indices", "set"}}) <= 1

\* C22 (as stated): register_etl_builders and register_pricing_indices each
\* run to successful completion at most once, the flag becomes true only
\* after both succeeded, no call touches a registry once it is true, and a
\* call in which a registration raises leaves it false.
C22_EachRegistrationOnce ==
    /\ Cardinality(Places({"etl_ok"})) <= 1
    /\ Cardinality(Places({"indices_ok"})) <= 1
    /\ FlagDiscipline

\* C22 (amended): register_pricing_indices runs to successful completion at
\* most once, and so does register_etl_builders in a call whose
\* register_pricing_indices does not raise (a call made after one whose
\* register_pricing_indices raised runs register_etl_builders again); the
\* flag becomes true only after both succeeded in one call, no call touches
\* a registry once it is true, and a call in which a registration raises
\* leaves it false.
C22_RegisteredOnce ==
    /\ Cardinality(Places({"indices_ok"})) <= 1
    /\ \A j \in Places({"etl_ok"}) :
          (\E n \in Places({"etl_ok"}) : n > j)
              => (j < Len(registrations) /\ registrations[j + 1].what = "indices_raise")
    /\ FlagDiscipline

\* register_pricing_indices raised in the first call; a call of the other
\* thread, waiting meanwhile, then registered everything, and a later call
\* with override=True returned at the test of the flag
C22_Witness ==
    /\ REGISTERED
    /\ Len(registrations) >= 6
    /\ registrations[1].what = "etl_ok"
    /\ registrations[2].what = "indices_raise"
    /\ registrations[3].what = "etl_ok"
    /\ registrations[3].thread # registrations[1].thread
    /\ registrations[6].what = "return_early"
    /\ registrations[6].override

(***************************************************************************)
(* fetch_banxico_series_batched of utils.py.  A series id is a number; a   *)
(* series object of the answer carries its id and the number of the        *)
(* request that brought it.  The server answers a request with the series  *)
(* ("ok"), with HTTP 413, with another HTTP error, or not at all (a        *)
(* timeout or a broken connection, which requests raises as an error that  *)
(* is not an HTTPError).                                                   *)
(***************************************************************************)
Answers == {"ok", "413", "http_error", "no_answer"}

RECURSIVE Dedup(_, _)
\* list(dict.fromkeys(series_ids)): the first occurrence of every id, in order
Dedup(ids, seen) ==
    IF ids = <<>> THEN <<>>
    ELSE IF Head(ids) \in seen THEN Dedup(Tail(ids), seen)
    ELSE <<Head(ids)>> \o Dedup(Tail(ids), seen \cup {Head(ids)})

\* the first c ids of uniq_ids, whatever the position
SliceFromStart(ids, pos, c) == SubSeq(ids, 1, Min(c, Len(ids)))

\* uniq_ids[i : i + chunk]
Slice(ids, pos, c) == SubSeq(ids, pos + 1, Min(pos + c, Len(ids)))

\* the chunk size, kept
KeepChunk(c) == c

\* chunk = max(1, chunk // 2)
Halve(c) == Max(1, c \div 2)

\* the series of the answer to request number n for the ids asked
Part(ids, n) == [j \in 1..Len(ids) |-> [idSerie |-> ids[j], request |-> n]]

FetchInit ==
    /\ ProgramIdle
    /\ pillars = 0 :> One
    /\ probe = None
    /\ workers = <<>>
    /\ RegistryIdle
    /\ series_ids \in SeqsUpTo(1..MaxSeries, MaxIds)
    /\ max_chunk \in 0..MaxChunk
    /\ uniq_ids = <<>>
    /\ fetch_out = <<>>
    /\ fetch_i = 0
    /\ chunk = 1
    /\ fpc = "called"
    /\ requests = <<>>

FetchUnchanged ==
    UNCHANGED <<entry, sort_kind, nodes, columns, probe, workers, registry_vars, wrapper_vars,
                curve_df, dpc, driver_vars, calls, series_ids, max_chunk>>

\* lines 116-119
FetchStart ==
    /\ fpc = "called"
    /\ uniq_ids' = Dedup(series_ids, {})
    /\ fetch_out' = <<>>
    /\ fetch_i' = 0
    /\ chunk' = Max(1, max_chunk)
    /\ fpc' = "loop"
    /\ UNCHANGED requests
    /\ FetchUnchanged

Sent(answer) == Append(requests, [ids |-> Slice(uniq_ids, fetch_i, chunk), answer |-> answer])

\* lines 122-133: the request succeeds, its series are appended, i += chunk
FetchOk ==
    /\ fpc = "loop"
    /\ fetch_i < Len(uniq_ids)
    /\ requests' = Sent("ok")
    /\ fetch_out' = fetch_out \o Part(Slice(uniq_ids, fetch_i, chunk), Len(requests) + 1)
    /\ fetch_i' = fetch_i + chunk
    /\ UNCHANGED <<uniq_ids, chunk, fpc>>
    /\ FetchUnchanged

\* lines 136-140: HTTP 413 with chunk > 1, the chunk is halved and the same
\* window asked again
FetchShrink ==
    /\ fpc = "loop"
    /\ fetch_i < Len(uniq_ids)
    /\ chunk > 1
    /\ requests' = Sent("413")
    /\ chunk' = Halve(chunk)
    /\ UNCHANGED <<uniq_ids, fetch_out, fetch_i, fpc>>
    /\ FetchUnchanged

\* line 141, and an error that passes the except clause: raised to the caller
FetchRaise ==
    /\ fpc = "loop"
    /\ fetch_i < Len(uniq_ids)
    /\ \E a \in Answers \ {"ok"} :
          /\ a = "413" => chunk = 1
          /\ requests' = Sent(a)
    /\ fpc' = "raised"
    /\ UNCHANGED <<uniq_ids, fetch_out, fetch_i, chunk>>
    /\ FetchUnchanged

\* lines 121 and 142: the loop ends, out is returned
FetchReturn ==
    /\ fpc = "loop"
    /\ fetch_i >= Len(uniq_ids)
    /\ fpc' = "returned"
    /\ UNCHANGED <<uniq_ids, fetch_out, fetch_i, chunk, requests>>
    /\ FetchUnchanged

FetchNext ==
    \/ FetchStart
    \/ FetchOk
    \/ FetchShrink
    \/ FetchRaise
    \/ FetchReturn

FetchSpec == FetchInit /\ [][FetchNext]_vars

\* the function is one thread that runs on, and every request ends (with an
\* answer, or with the timeout of line 93)
FetchLiveSpec == FetchSpec /\ WF_vars(FetchNext)

FetchEnded == fpc \in {"returned", "raised"}

LastRequest == requests[Len(requests)]

\* C23: fetch_banxico_series_batched ends, returning or raising, for every
\* id list and every sequence of answers; every pass of its loop sends one
\* request and either advances past the slice asked (answer ok), or halves
\* the chunk at the same position (413, chunk > 1), or raises (413 at chunk
\* 1, any other error); the chunk never grows and is never below 1.
C23_FetchTerminates ==
    /\ <>FetchEnded
    /\ [](fpc \in {"loop", "returned", "raised"} => chunk >= 1)
    /\ [][fpc = "loop" =>
            /\ chunk' <= chunk
            /\ fetch_i < Len(uniq_ids)
                  => /\ Len(requests') = Len(requests) + 1
                     /\ LastRequest'.ids # <<>>
                     /\ LastRequest'.ids
                           = SubSeq(uniq_ids, fetch_i + 1, fetch_i + Len(LastRequest'.ids))
                     /\ LastRequest'.answer = "ok"
                           => /\ fetch_i' >= fetch_i + Len(LastRequest'.ids)
                              /\ chunk' = chunk
                              /\ fpc' = "loop"
                     /\ (LastRequest'.answer = "413" /\ chunk > 1)
                           => /\ chunk' = Max(1, chunk \div 2)
                              /\ chunk' < chunk
                              /\ fetch_i' = fetch_i
                              /\ fpc' = "loop"
                     /\ (LastRequest'.answer = "413" /\ chunk = 1) => fpc' = "raised"
                     /\ LastRequest'.answer \in {"http_error", "no_answer"} => fpc' = "raised"]_vars

\* the call returned three series after the chunk was halved twice, from 4
\* to 1, each time at a 413
C23_Witness ==
    /\ fpc = "returned"
    /\ max_chunk = 4
    /\ chunk = 1
    /\ Len(uniq_ids) = 3
    /\ Cardinality({j \in 1..Len(requests) : requests[j].answer = "413"}) = 2
    /\ Len(fetch_out) = 3

\* the requests that succeeded, in the order sent
OkRequests == SelectSeq(requests, LAMBDA q : q.answer = "ok")

RECURSIVE Joined(_)
\* the slices of a list of requests, one after the other
Joined(qs) == IF qs = <<>> THEN <<>> ELSE Head(qs).ids \o Joined(Tail(qs))

\* the place of the first occurrence of an id in the list passed
FirstAt(id) ==
    CHOOSE j \in 1..Len(series_ids) :
        series_ids[j] = id /\ \A n \in 1..(j - 1) : series_ids[n] # id

\* C24: when the call returns, the slices of its successful requests, put
\* end to end, are the distinct ids asked for, each once and in the order of
\* their first occurrence, so that every id was in exactly one successful
\* request; and the list returned holds the series of the successful
\* requests, in that order, and nothing of a request answered with 413.
C24_EveryIdOnce ==
    fpc = "returned"
        => /\ Range(Joined(OkRequests)) = Range(series_ids)
           /\ \A a, b \in 1..Len(Joined(OkRequests)) :
                 a < b => FirstAt(Joined(OkRequests)[a]) < FirstAt(Joined(OkRequests)[b])
           /\ \A id \in Range(series_ids) :
                 Cardinality({j \in 1..Len(requests) :
                                 requests[j].answer = "ok" /\ id \in Range(requests[j].ids)}) = 1
           /\ [j \in 1..Len(fetch_out) |-> fetch_out[j].idSerie] = Joined(OkRequests)
           /\ \A j \in 1..Len(fetch_out) :
                 /\ requests[fetch_out[j].request].answer = "ok"
                 /\ fetch_out[j].idSerie \in Range(requests[fetch_out[j].request].ids)

\* the call returned the three distinct ids of a list of four after a 413
\* halved the chunk, in two successful requests
C24_Witness ==
    /\ fpc = "returned"
    /\ Len(series_ids) = 4
    /\ Len(uniq_ids) = 3
    /\ series_ids[1] # 1
    /\ Len(OkRequests) = 2
    /\ \E j \in 1..Len(requests) : requests[j].answer = "413"
    /\ Len(fetch_out) = 3

(***************************************************************************)
(* The cash-flow schedules of the coupon-bearing rows on their own: the    *)
(* schedule of a fixed_bond or floating-rate row of tenor T, and its split *)
(* at the last pillar S of a store, as the row's branch computes them.     *)
(***************************************************************************)
ScheduleTenors == {1, 27, 28, 29, 56, 57, 91, 182, 200, 364, 365, MaxProbe}
ScheduleCoupons == {0, 8000}
ScheduleRates == {1050}

ScheduleInit == CurveInit

\* lines 207-236 for a fixed_bond row
BondProbe(T, coupon) ==
    LET S == SetMax(DOMAIN pillars)
        sched == BondSchedule(T, coupon)
        coupons == SubSeq(sched, 1, Len(sched) - 1)
    IN  [family |-> "fixed_bond", T |-> T, coupon |-> coupon, S |-> S, k |-> Len(sched), d |-> 0,
         C1 |-> 0, C |-> 0,
         sched |-> sched,
         pre_known_sum |-> PreKnownSum(pillars, S, coupons),
         future |-> SelectAfter(coupons, S) \o <<sched[Len(sched)]>>]

\* lines 249-296 for a floating-rate row
FrnProbe(T, coupon, r_pct) ==
    LET S == SetMax(DOMAIN pillars)
        p == _frn_28day_coupon_params(T, r_pct, _normalize_spread_pct(Some(coupon)))
        sched == FrnSchedule(T, p)
    IN  [family |-> "floating_bondes", T |-> T, coupon |-> coupon, S |-> S, k |-> p.k, d |-> p.d,
         C1 |-> p.C1, C |-> p.C,
         sched |-> sched,
         pre_known_sum |-> PreKnownSum(pillars, S, sched),
         future |-> SelectAfter(sched, S)]

ScheduleUnchanged ==
    UNCHANGED <<entry, sort_kind, nodes, columns, workers, registry_vars, fetch_vars, wrapper_vars,
                curve_df, dpc, driver_vars, calls>>

ScheduleBond ==
    /\ \E T \in ScheduleTenors, c \in ScheduleCoupons : probe' = Some(BondProbe(T, c))
    /\ ScheduleUnchanged

ScheduleFrn ==
    /\ \E T \in ScheduleTenors, c \in ScheduleCoupons, r \in ScheduleRates :
          probe' = Some(FrnProbe(T, c, r))
    /\ ScheduleUnchanged

ScheduleNext ==
    \/ ScheduleBond
    \/ ScheduleFrn

ScheduleSpec == ScheduleInit /\ [][ScheduleNext]_vars

Probed(family) == probe # <<>> /\ probe[1].family = family

\* the times T - step * j > 0, j = 1, 2, ..., ascending
RECURSIVE BackwardDates(_, _)
BackwardDates(T, step) ==
    IF T - step <= 0 THEN <<>> ELSE Append(BackwardDates(T - step, step), T - step)

\* C25: the coupons of a fixed_bond row before maturity fall at the times
\* T - 182 * j > 0 (j = 1, 2, ...), each of coupon/100 * (182/360) * 100,
\* and the final cash flow at T is 100 plus a coupon accrued over
\* (T - last coupon time) / 360.
C25_CouponsBackFromMaturity ==
    Probed("fixed_bond") =>
        LET q == probe[1]
            n == Len(q.sched)
            back == BackwardDates(q.T, BondStep)
            last == IF Len(back) > 0 THEN back[Len(back)] ELSE 0
        IN  /\ [j \in 1..(n - 1) |-> q.sched[j].t] = back
            /\ \A j \in 1..(n - 1) : q.sched[j].a = (q.coupon * BondStep) \div DayCount
            /\ q.sched[n].t = q.T
            /\ q.sched[n].a = Face * One + (q.coupon * (q.T - last)) \div DayCount

\* the flows of a schedule that the curve already prices
Known(sched, S) == SelectSeq(sched, LAMBDA f : f.t <= S)

\* C26: for a fixed_bond or floating-rate row with T > S every flow of the
\* schedule is counted once: the flows at times <= S, discounted on the
\* curve, make pre_known_sum, the flows after S are handed to the solver in
\* increasing time order, their times all in (S, T], and the last of them is
\* the final cash flow, at T.
C26_FlowsCountedOnce ==
    (probe # <<>> /\ probe[1].T > probe[1].S) =>
        LET q == probe[1]
            n == Len(q.future)
        IN  /\ Known(q.sched, q.S) \o q.future = q.sched
            /\ q.pre_known_sum
                  = SumSeq([j \in 1..Len(Known(q.sched, q.S)) |->
                              Discounted(Known(q.sched, q.S)[j].a,
                                         df_func(pillars, Known(q.sched, q.S)[j].t))])
            /\ n >= 1
            /\ \A j \in 1..n : q.S < q.future[j].t /\ q.future[j].t <= q.T
            /\ \A j \in 1..(n - 1) : q.future[j].t < q.future[j + 1].t
            /\ q.future[n] = q.sched[Len(q.sched)]
            /\ q.future[n].t = q.T
            /\ q.future[n].a >= Face * One

\* a floating-rate row of 56 days on a store whose last pillar is at 28
\* days: the coupon at day 28 is priced on the curve, the final cash flow
\* alone goes to the solver
C26_Witness ==
    /\ Probed("floating_bondes")
    /\ probe[1].T = 56
    /\ probe[1].S = 28
    /\ Len(probe[1].sched) = 2
    /\ probe[1].sched[1].t = 28
    /\ probe[1].pre_known_sum > 0
    /\ Len(probe[1].future) = 1

\* C27: the schedule of a floating-rate row of tenor T > 0 has k =
\* ceil(T / 28) payments, at the times T - 28 * i for i = k - 1, ..., 0, all
\* positive; the first coupon is C1 and every later one C; the payment at T
\* is 100 + C for k >= 2 and 100 + C1 for k = 1; and the accrued days
\* d = 28 - (T - 28 * (k - 1)) are at least 0 and less than 28.
C27_FrnSchedule ==
    (Probed("floating_bondes") /\ probe[1].T > 0) =>
        LET q == probe[1]
            k == q.k
        IN  /\ FrnStep * (k - 1) < q.T /\ q.T <= FrnStep * k
            /\ Len(q.sched) = k
            /\ \A j \in 1..k : q.sched[j].t = q.T - FrnStep * (k - j) /\ q.sched[j].t > 0
            /\ \A j \in 1..(k - 1) : q.sched[j].a = (IF j = 1 THEN q.C1 ELSE q.C)
            /\ q.sched[k].a = Face * One + (IF k >= 2 THEN q.C ELSE q.C1)
            /\ q.d = FrnStep - (q.T - FrnStep * (k - 1))
            /\ 0 <= q.d /\ q.d < FrnStep

\* a floating-rate row of 57 days at an overnight rate of 10.50%: three
\* payments, at days 1, 29 and 57, the first a coupon that had accrued for
\* 27 days
C27_Witness ==
    /\ Probed("floating_bondes")
    /\ probe[1].T = 57
    /\ probe[1].k = 3
    /\ probe[1].d = 27
    /\ probe[1].sched[1].t = 1
    /\ probe[1].sched[2].t = 29
    /\ probe[1].C > 0
    /\ probe[1].sched[3].a = Face * One + probe[1].C

(***************************************************************************)
(* Properties of the store and of the curve returned.                      *)
(***************************************************************************)
\* C28: a pass of the main loop removes no pillar, adds or changes at most
\* the pillar at the tenor of the row it is at, leaves the pillars at all
\* other tenors as they were, and changes nothing when the row raises.
C28_StoreOnlyGrows ==
    [][(dpc = "loop" /\ idx <= Len(df)) =>
          /\ DOMAIN pillars \subseteq DOMAIN pillars'
          /\ DOMAIN pillars' \subseteq DOMAIN pillars \cup {df[idx].tenor_days}
          /\ \A t \in DOMAIN pillars \ {df[idx].tenor_days} : pillars'[t] = pillars[t]
          /\ dpc' = "raised" => pillars' = pillars]_vars

\* three rows done, the third at the tenor of the second: the store holds
\* the pillars of days 0, 1 and 28
C28_Witness ==
    /\ dpc = "loop"
    /\ idx = 4
    /\ ~SkipsRows(df)
    /\ df[1].tenor_days = 1
    /\ df[2].tenor_days = 28
    /\ df[3].tenor_days = 28
    /\ DOMAIN pillars = {0, 1, 28}

(***************************************************************************)
(* The conversion of a store to the curve returned (lines 311-319) and to  *)
(* the wrapper's mapping, on its own, for stores whose tenors need not be  *)
(* whole days: tenor_days is a float column.  A tenor is counted in half   *)
(* days.                                                                   *)
(***************************************************************************)
HalfDay == 2
\* 0.5, 1, 28, 28.5 and 91 days
HalfDayTenors == {1, 2, 56, 57, 182}
OutputDFs == {990, 1000}

OutputStores ==
    {P \in UNION {[{0} \cup X -> OutputDFs] : X \in SUBSET HalfDayTenors} : P[0] = One}

OutputInit == ProgramIdle /\ pillars = 0 :> One /\ probe = None /\ workers = <<>>
              /\ RegistryIdle /\ FetchIdle

\* lines 311-319, then rates_to_curves.py line 76 on the table returned
OutputEval ==
    /\ \E store \in OutputStores :
          probe' = Some([store |-> store,
                         out |-> ZeroCurveIn(store, HalfDay),
                         curve |-> ToDict(ZeroCurveIn(store, HalfDay))])
    /\ UNCHANGED <<entry, sort_kind, nodes, columns, workers, registry_vars, fetch_vars, wrapper_vars,
                    curve_df, dpc, driver_vars, calls>>

OutputNext == OutputEval

OutputSpec == OutputInit /\ [][OutputNext]_vars

\* C29: the table returned holds one point per pillar with tenor > 0 and
\* none for tenor 0, ascending, its days_to_maturity pairwise distinct
\* integers >= 1, and the mapping built from it has as many entries as the
\* store has pillars with tenor > 0.
C29_OnePointPerPillar ==
    probe # <<>> =>
        LET q == probe[1]
            n == Cardinality({t \in DOMAIN q.store : t > 0})
        IN  /\ Len(q.out) = n
            /\ \A j \in 1..n : q.out[j].days_to_maturity >= 1
            /\ \A a, b \in 1..n : a < b => q.out[a].days_to_maturity < q.out[b].days_to_maturity
            /\ Cardinality(DOMAIN q.curve) = n

\* the row bears coupons: a fixed_bond or a floating-rate note
BearsCoupons(r) == Normalize(r.type) = "fixed_bond" \/ IsFrn(r)

\* what the row's branch stores at the row's tenor in a store that has only
\* the pillar of day 0
OwnValue(r) ==
    Dispatch([pillars |-> 0 :> One, on_rate_pct |-> None, err |-> NoError, solve |-> None], r)
        .pillars[r.tenor_days]

\* a pass of the main loop on a row that does not raise
RowDone == dpc = "loop" /\ idx <= Len(df) /\ ~SkipsRows(df) /\ dpc' = "loop"

====
